---------------------------- MODULE Spec2Model ----------------------------
(***************************************************************************)
(* A model of the portfolio dashboard: the watchlist store behind          *)
(* /api/stocks (route handlers over MemStorage or DatabaseStorage), the    *)
(* exchange-rate cache, the error classifier and the multi-symbol fetch    *)
(* loops.  Each component has its own specification over the shared        *)
(* variables; the variables of the other components stay at their initial  *)
(* values.                                                                 *)
(***************************************************************************)
EXTENDS Integers, Sequences, FiniteSets, TLC

VARIABLES
    storage,          \* which IStorage the server exports: "mem" or "db"
    stocks,           \* MemStorage.stocks (Map, in insertion order) / the stocks table
    currentStockId,   \* MemStorage.currentStockId / the serial id of the table
    hpc,              \* per route-handler instance: where it is suspended
    hreq,             \* per route-handler instance: the request body, while it runs
    hresp,            \* the response most recently sent by a route handler
    localStocks,      \* localStorage['user_stocks'] of the browser-side variant
    cachedExchangeRate, \* the module-level exchange-rate cache: <<>> is null
    now,              \* Date.now(), in ms
    ticks,            \* how often the clock has advanced
    cpc,              \* per getUsdToEurRate call in flight: where it is suspended
    cret,             \* per caller: how its last getUsdToEurRate call ended
    fetchCount,       \* requests sent to the rate provider so far
    errIn,            \* the caught failure handed to createStockError
    errCtx,           \* the context label handed to createStockError
    errOut,           \* the StockError it returned, or NoStockError
    fop,              \* the multi-symbol operation in progress and its configuration
    fsyms,            \* the symbols it goes through
    fidx,             \* for (const symbol of ...): the index of the current iteration
    fpc,              \* where the operation is suspended
    ftask,            \* per symbol: how its getStock and getStockNews promises stand
    fresults,         \* results / updatedStocks / recommendations
    fend,             \* how the promise of the operation stands
    flog,             \* provider requests sent and delays elapsed, in order
    call,             \* the single StockApiService call of the page in progress
    ret,              \* how the promise of that call stands
    watchlist,        \* the active symbols of the Watchlist Store behind /api/stocks
    pageStocks,       \* useState stocks of Index: the displayed portfolio
    loading,          \* useState loading of Index
    pageOps,          \* the handlers of Index in flight, one per slot
    pageStarts,       \* how many handlers the user has started
    pageFaults,       \* which kinds of request have failed so far
    logs,             \* the module-level log store of DebugPanel
    logListeners,     \* the registered listeners, by panel
    currentLogs,      \* useState currentLogs of each DebugPanel
    logCount          \* how many entries addLog has made

storeVars == <<storage, stocks, currentStockId, hpc, hreq, hresp, localStocks>>
rateVars == <<cachedExchangeRate, now, ticks, cpc, cret, fetchCount>>

errVars == <<errIn, errCtx, errOut>>
fetchVars == <<fop, fsyms, fidx, fpc, ftask, fresults, fend, flog>>
callVars == <<call, ret>>
pageVars == <<watchlist, pageStocks, loading, pageOps, pageStarts, pageFaults>>
logVars == <<logs, logListeners, currentLogs, logCount>>

vars == <<storeVars, rateVars, errVars, fetchVars, callVars, pageVars, logVars>>

\* what an action of one component leaves alone
notStore == <<rateVars, errVars, fetchVars, callVars, pageVars, logVars>>
notRate == <<storeVars, errVars, fetchVars, callVars, pageVars, logVars>>
notErr == <<storeVars, rateVars, fetchVars, callVars, pageVars, logVars>>
notFetch == <<storeVars, rateVars, errVars, callVars, pageVars, logVars>>
notCall == <<storeVars, rateVars, errVars, fetchVars, pageVars, logVars>>
notPage == <<storeVars, rateVars, errVars, fetchVars, callVars, logVars>>
notLog == <<storeVars, rateVars, errVars, fetchVars, callVars, pageVars>>

NULL == "null"

(***************************************************************************)
(* Strings that the code upper-cases are sequences of characters, so that  *)
(* String.prototype.toUpperCase is computed character by character.        *)
(***************************************************************************)
UpperLetters == <<"A","B","C","D","E","F","G","H","I","J","K","L","M",
                  "N","O","P","Q","R","S","T","U","V","W","X","Y","Z">>
LowerLetters == <<"a","b","c","d","e","f","g","h","i","j","k","l","m",
                  "n","o","p","q","r","s","t","u","v","w","x","y","z">>

UpperChar(ch) ==
    IF \E i \in DOMAIN LowerLetters : LowerLetters[i] = ch
    THEN UpperLetters[CHOOSE i \in DOMAIN LowerLetters : LowerLetters[i] = ch]
    ELSE ch

toUpperCase(s) == [i \in DOMAIN s |-> UpperChar(s[i])]

\* ticker symbols a client may send, in several letter cases; <<>> is ""
SymbolInputs == { <<"A","A","P","L">>, <<"a","a","p","l">>, <<"M","S","F","T">>, <<>> }
NameInputs   == { "Apple Inc", "" }

-----------------------------------------------------------------------------
(***************************************************************************)
(* The Watchlist Store: routes of /api/stocks over IStorage.               *)
(***************************************************************************)

\* number of route-handler instances that can be in flight at once
NHandlers == 2
\* rows ever inserted (caps the serial id)
MaxStockId == 3

Handlers == 1..NHandlers

\* indexes of the rows whose symbol column equals sym
RowsWithSymbol(rows, sym) == { i \in DOMAIN rows : rows[i].symbol = sym }

\* MemStorage.getStocks / DatabaseStorage.getStocks (single-user branch):
\* the active rows, in table order
RECURSIVE SelectActive(_)
SelectActive(rows) ==
    IF rows = <<>> THEN <<>>
    ELSE IF Head(rows).isActive
         THEN <<Head(rows)>> \o SelectActive(Tail(rows))
         ELSE SelectActive(Tail(rows))

getStocks(rows) == SelectActive(rows)

\* MemStorage.getStock: this.stocks.get(symbol.toUpperCase()); the Map holds at
\* most one entry per key, the key of an entry being its upper-cased symbol
MemGetStock(rows, symbol) ==
    LET hit == { i \in DOMAIN rows : toUpperCase(rows[i].symbol) = toUpperCase(symbol) }
    IN  IF hit = {} THEN {<<>>} ELSE { <<rows[i]>> : i \in hit }

\* DatabaseStorage.getStock: SELECT ... WHERE symbol = upper LIMIT 1 with no
\* ORDER BY: any one of the matching rows, undefined when there is none
DbGetStock(rows, symbol) ==
    LET hit == RowsWithSymbol(rows, toUpperCase(symbol))
    IN  IF hit = {} THEN {<<>>} ELSE { <<rows[i]>> : i \in hit }

\* the set of values storage.getStock(symbol) can resolve to: <<row>>, or <<>>
\* for undefined
getStock(kind, rows, symbol) ==
    IF kind = "mem" THEN MemGetStock(rows, symbol) ELSE DbGetStock(rows, symbol)

\* MemStorage.addStock: this.stocks.set(KEY, newStock); an existing key keeps
\* its place in the Map and gets the new value
MemAddStock(rows, stock, id) ==
    LET newStock == [id |-> id, symbol |-> stock.symbol, name |-> stock.name, isActive |-> TRUE]
        hit == { i \in DOMAIN rows : toUpperCase(rows[i].symbol) = toUpperCase(stock.symbol) }
    IN  IF hit = {} THEN Append(rows, newStock)
        ELSE [i \in DOMAIN rows |-> IF i \in hit THEN newStock ELSE rows[i]]

\* DatabaseStorage.addStock: INSERT INTO stocks; is_active defaults to true and
\* the table has no unique constraint on symbol
DbAddStock(rows, stock, id) ==
    Append(rows, [id |-> id, symbol |-> stock.symbol, name |-> stock.name, isActive |-> TRUE])

addStock(kind, rows, stock, id) ==
    IF kind = "mem" THEN MemAddStock(rows, stock, id) ELSE DbAddStock(rows, stock, id)

\* MemStorage.removeStock: the entry under the upper-cased key, if any
MemRemoveStock(rows, symbol) ==
    [i \in DOMAIN rows |->
        IF toUpperCase(rows[i].symbol) = toUpperCase(symbol)
        THEN [rows[i] EXCEPT !.isActive = FALSE] ELSE rows[i]]

\* DatabaseStorage.removeStock: UPDATE stocks SET is_active = false
\* WHERE symbol = upper (both branches are the same statement)
DbRemoveStock(rows, symbol) ==
    [i \in DOMAIN rows |->
        IF rows[i].symbol = toUpperCase(symbol)
        THEN [rows[i] EXCEPT !.isActive = FALSE] ELSE rows[i]]

removeStock(kind, rows, symbol) ==
    IF kind = "mem" THEN MemRemoveStock(rows, symbol) ELSE DbRemoveStock(rows, symbol)

\* c.json(body, status): an error text or the symbols of the rows sent back
Response(status, error, symbols) == [status |-> status, error |-> error, symbols |-> symbols]
NoResponse == Response(0, "", <<>>)

Request(method, symbol, name) == [method |-> method, symbol |-> symbol, name |-> name]
NoRequest == Request(NULL, <<>>, "")

\* app.post("/api/stocks"), up to the await of storage.getStock: the body is
\* validated, the existing row is looked up and an active one answers 409
PostStocksCheck(h, symbol, name) ==
    /\ storage # "local"
    /\ hpc[h] = "idle"
    /\ IF symbol = <<>> \/ name = ""
       THEN /\ hresp' = Response(400, "Symbol and name are required", <<>>)
            /\ UNCHANGED <<hpc, hreq>>
       ELSE \E existing \in getStock(storage, stocks, symbol) :
              IF existing # <<>> /\ existing[1].isActive
              THEN /\ hresp' = Response(409, "Stock already exists", <<>>)
                   /\ UNCHANGED <<hpc, hreq>>
              ELSE /\ hpc' = [hpc EXCEPT ![h] = "adding"]
                   /\ hreq' = [hreq EXCEPT ![h] = Request("POST", symbol, name)]
                   /\ UNCHANGED hresp
    /\ UNCHANGED <<storage, stocks, currentStockId, localStocks, notStore>>

\* app.post("/api/stocks"), from the await of storage.addStock to the response
PostStocksAdd(h) ==
    /\ hpc[h] = "adding"
    /\ currentStockId <= MaxStockId
    /\ LET stock == [symbol |-> toUpperCase(hreq[h].symbol), name |-> hreq[h].name]
       IN  /\ stocks' = addStock(storage, stocks, stock, currentStockId)
           /\ hresp' = Response(200, "", <<stock.symbol>>)
    /\ currentStockId' = currentStockId + 1
    /\ hpc' = [hpc EXCEPT ![h] = "idle"]
    /\ hreq' = [hreq EXCEPT ![h] = NoRequest]
    /\ UNCHANGED <<storage, localStocks, notStore>>

\* app.post("/api/stocks"): the insert of DatabaseStorage rejects, the catch
\* answers 500
PostStocksError(h) ==
    /\ hpc[h] = "adding"
    /\ storage = "db"
    /\ hresp' = Response(500, "Failed to add stock", <<>>)
    /\ hpc' = [hpc EXCEPT ![h] = "idle"]
    /\ hreq' = [hreq EXCEPT ![h] = NoRequest]
    /\ UNCHANGED <<storage, stocks, currentStockId, localStocks, notStore>>

\* app.delete("/api/stocks/:symbol")
DeleteStock(h, symbol) ==
    /\ storage # "local"
    /\ hpc[h] = "idle"
    /\ symbol # <<>>
    /\ stocks' = removeStock(storage, stocks, symbol)
    /\ hresp' = Response(200, "", <<>>)
    /\ UNCHANGED <<storage, currentStockId, hpc, hreq, localStocks, notStore>>

\* app.delete("/api/stocks/:symbol"): the update of DatabaseStorage rejects,
\* the catch answers 500
DeleteStockError(h, symbol) ==
    /\ storage = "db"
    /\ hpc[h] = "idle"
    /\ symbol # <<>>
    /\ hresp' = Response(500, "Failed to remove stock", <<>>)
    /\ UNCHANGED <<storage, stocks, currentStockId, hpc, hreq, localStocks, notStore>>

RECURSIVE SymbolsOf(_)
SymbolsOf(rows) ==
    IF rows = <<>> THEN <<>> ELSE <<Head(rows).symbol>> \o SymbolsOf(Tail(rows))

\* app.get("/api/stocks"): the active rows; the client keeps their symbols
GetStocks(h) ==
    /\ storage # "local"
    /\ hpc[h] = "idle"
    /\ hresp' = Response(200, "", SymbolsOf(getStocks(stocks)))
    /\ UNCHANGED <<storage, stocks, currentStockId, hpc, hreq, localStocks, notStore>>

(***************************************************************************)
(* The browser-side variant of the store: a JSON array of symbols under    *)
(* localStorage['user_stocks'].  Its functions are synchronous and return  *)
(* nothing.                                                                *)
(***************************************************************************)
includes(list, x) == \E i \in DOMAIN list : list[i] = x

getStoredStocks == localStocks

\* addStockToStorage: push the upper-cased symbol unless it is stored already
addStockToStorage(symbol) ==
    /\ storage = "local"
    /\ Len(localStocks) < MaxStockId
    /\ localStocks' = IF ~includes(getStoredStocks, toUpperCase(symbol))
                      THEN Append(getStoredStocks, toUpperCase(symbol))
                      ELSE localStocks
    /\ UNCHANGED <<storage, stocks, currentStockId, hpc, hreq, hresp, notStore>>

\* removeStockFromStorage: filter the upper-cased symbol out
removeStockFromStorage(symbol) ==
    /\ storage = "local"
    /\ localStocks' = SelectSeq(getStoredStocks, LAMBDA s : s # toUpperCase(symbol))
    /\ UNCHANGED <<storage, stocks, currentStockId, hpc, hreq, hresp, notStore>>

-----------------------------------------------------------------------------
(***************************************************************************)
(* The exchange-rate cache: getUsdToEurRate.  Rates are the decimal texts  *)
(* the provider sends; "undefined" is a body whose rates hold no EUR.      *)
(***************************************************************************)

CACHE_DURATION == 3600000

\* clock advances in one behaviour
MaxTicks == 3
\* provider requests in one behaviour
MaxFetches == 3

\* the two convertToEur calls a card starts together with Promise.all
Callers == {"price", "change"}
ProviderRates == {"0.84", "0.92", "undefined"}
FallbackRate == "0.85"
\* the clock moves by a millisecond or by just under the time to live
TimeSteps == {1, CACHE_DURATION - 1}

CacheEntry(rate, timestamp) == <<[rate |-> rate, timestamp |-> timestamp]>>

\* the record of a caller's last call: pending, or how it ended (a return
\* value or a thrown error), where the value came from, when the call
\* started and when it ended
Pending(started) == [kind |-> "pending", value |-> "", via |-> "", started |-> started, at |-> started]
Returned(value, via, started, at) == [kind |-> "return", value |-> value, via |-> via, started |-> started, at |-> at]
NotCalled == [kind |-> "none", value |-> "", via |-> "", started |-> 0, at |-> 0]

\* mutant: an entry exactly one time to live old still counts as fresh
CacheFreshInclusive(cache, time) ==
    cache # <<>> /\ (time - cache[1].timestamp) <= CACHE_DURATION

\* cachedExchangeRate && (Date.now() - cachedExchangeRate.timestamp) < CACHE_DURATION
CacheFresh(cache, time) ==
    cache # <<>> /\ (time - cache[1].timestamp) < CACHE_DURATION

\* getUsdToEurRate up to its first await: a fresh cache entry is returned,
\* otherwise the request to the rate provider is sent
RateCall(c) ==
    /\ cpc[c] = "idle"
    /\ IF CacheFresh(cachedExchangeRate, now)
       THEN /\ cret' = [cret EXCEPT ![c] = Returned(cachedExchangeRate[1].rate, "cache", now, now)]
            /\ UNCHANGED <<cpc, fetchCount>>
       ELSE /\ fetchCount < MaxFetches
            /\ cpc' = [cpc EXCEPT ![c] = "fetching"]
            /\ fetchCount' = fetchCount + 1
            /\ cret' = [cret EXCEPT ![c] = Pending(now)]
    /\ UNCHANGED <<cachedExchangeRate, now, ticks, notRate>>

\* mutant: the catch block caches the approximate rate it returns
RateFallbackCached(c) ==
    /\ cachedExchangeRate' = CacheEntry(FallbackRate, now)
    /\ cret' = [cret EXCEPT ![c] = Returned(FallbackRate, "fallback", cret[c].started, now)]
    /\ cpc' = [cpc EXCEPT ![c] = "idle"]
    /\ UNCHANGED <<now, ticks, fetchCount, notRate>>

\* the catch block: log and return the approximate rate
RateFallback(c) ==
    /\ cret' = [cret EXCEPT ![c] = Returned(FallbackRate, "fallback", cret[c].started, now)]
    /\ cpc' = [cpc EXCEPT ![c] = "idle"]
    /\ UNCHANGED <<cachedExchangeRate, now, ticks, fetchCount, notRate>>

\* mutant: a response that finds a fresh entry written meanwhile keeps it
RateStoreKeepFirst(c, eurRate) ==
    /\ cachedExchangeRate' = IF CacheFresh(cachedExchangeRate, now)
                             THEN cachedExchangeRate ELSE CacheEntry(eurRate, now)
    /\ cret' = [cret EXCEPT ![c] = Returned(eurRate, "provider", cret[c].started, now)]
    /\ cpc' = [cpc EXCEPT ![c] = "idle"]
    /\ UNCHANGED <<now, ticks, fetchCount, notRate>>

\* the rate is cached with the time of the write and returned
RateStore(c, eurRate) ==
    /\ cachedExchangeRate' = CacheEntry(eurRate, now)
    /\ cret' = [cret EXCEPT ![c] = Returned(eurRate, "provider", cret[c].started, now)]
    /\ cpc' = [cpc EXCEPT ![c] = "idle"]
    /\ UNCHANGED <<now, ticks, fetchCount, notRate>>

\* await fetch(EXCHANGE_RATE_API) settles: it rejects, or the response is not
\* ok and the code throws, or the body is awaited
RateFetchSettles(c, outcome) ==
    /\ cpc[c] = "fetching"
    /\ IF outcome \in {"reject", "non2xx"}
       THEN RateFallback(c)
       ELSE /\ cpc' = [cpc EXCEPT ![c] = "parsing"]
            /\ UNCHANGED <<cachedExchangeRate, now, ticks, cret, fetchCount, notRate>>

\* await response.json() settles: the body does not parse or holds no rates
\* object (data.rates.EUR throws), or data.rates.EUR is cached and returned
RateBodySettles(c, body) ==
    /\ cpc[c] = "parsing"
    /\ IF body \in {"badjson", "norates"}
       THEN RateFallback(c)
       ELSE RateStore(c, body)

\* time passes
ClockAdvance(d) ==
    /\ ticks < MaxTicks
    /\ now' = now + d
    /\ ticks' = ticks + 1
    /\ UNCHANGED <<cachedExchangeRate, cpc, cret, fetchCount, notRate>>

-----------------------------------------------------------------------------
(***************************************************************************)
(* The error classifier: createStockError.  A message is a sequence of     *)
(* words and String.prototype.includes is the search for a contiguous run  *)
(* of words.                                                               *)
(***************************************************************************)

\* phrases put together to make a message
MaxParts == 3

\* String.prototype.includes
StrIncludes(str, pat) ==
    \E i \in 0..(Len(str) - Len(pat)) : SubSeq(str, i + 1, i + Len(pat)) = pat

\* the substrings createStockError looks for
FAILED_TO_FETCH == <<"Failed", "to", "fetch">>
NETWORK_ERROR == <<"NetworkError">>
API_CALL_FREQUENCY == <<"API", "call", "frequency">>
RATE_LIMIT == <<"rate", "limit">>
NOT_FOUND == <<"not", "found">>
INVALID_API_CALL == <<"Invalid", "API", "call">>
NO_DATA_TEXT == <<"no", "data">>

\* pieces of the messages the application throws and the browser raises
Phrases ==
    { FAILED_TO_FETCH, NETWORK_ERROR, API_CALL_FREQUENCY, RATE_LIMIT, NOT_FOUND,
      INVALID_API_CALL, NO_DATA_TEXT,
      <<"Rate", "limit">>, <<"not">>, <<"found">>, <<"exceeded,", "symbol">>,
      <<"Stock", "already", "exists">>, <<"timeout">> }

RECURSIVE Messages(_)
Messages(n) ==
    IF n = 0 THEN { <<>> }
    ELSE Messages(n - 1) \cup { m \o ph : m \in Messages(n - 1), ph \in Phrases }

\* error.data: a value and the number of keys Object.keys finds on it
DataInputs ==
    { [kind |-> "undefined", keys |-> 0], [kind |-> "null", keys |-> 0],
      [kind |-> "object", keys |-> 0], [kind |-> "object", keys |-> 1] }

\* the caught value: an object with or without a message and a data field
ErrorInputs ==
    { [hasMessage |-> TRUE, message |-> m, data |-> d] : m \in Messages(MaxParts), d \in DataInputs }
    \cup { [hasMessage |-> FALSE, message |-> <<>>, data |-> d] : d \in DataInputs }

ContextInputs == { "adding stock", "loading recommendations" }

\* error.message?.includes(pat): undefined, hence falsy, without a message
MessageIncludes(error, pat) ==
    error.hasMessage /\ StrIncludes(error.message, pat)

\* Object.keys(error.data || {}).length === 0
NoDataKeys(error) ==
    LET payload == IF error.data.kind \in {"undefined", "null"}
                   THEN [kind |-> "object", keys |-> 0] ELSE error.data
    IN  payload.keys = 0

StockError(type, message, solution, canRetry) ==
    [type |-> type, message |-> message, solution |-> solution, canRetry |-> canRetry]
NoStockError == StockError("", <<>>, "", FALSE)

\* mutant: the symbol rule is tried before the rate-limit rule
createStockErrorSymbolFirst(error, context) ==
    IF MessageIncludes(error, FAILED_TO_FETCH) \/ MessageIncludes(error, NETWORK_ERROR)
    THEN StockError("NETWORK", <<"Unable to connect to stock data service">>,
                    "Check your internet connection and try again", TRUE)
    ELSE IF MessageIncludes(error, NOT_FOUND) \/ MessageIncludes(error, INVALID_API_CALL)
    THEN StockError("INVALID_SYMBOL", <<"Stock symbol not found">>,
                    "Check the stock symbol or try searching by company name", FALSE)
    ELSE IF MessageIncludes(error, API_CALL_FREQUENCY) \/ MessageIncludes(error, RATE_LIMIT)
    THEN StockError("API_LIMIT", <<"Too many requests - API limit reached">>,
                    "Please wait a few minutes before trying again", TRUE)
    ELSE IF MessageIncludes(error, NO_DATA_TEXT) \/ NoDataKeys(error)
    THEN StockError("NO_DATA", <<"No stock data available">>,
                    "This stock may not be actively traded or may be delisted", FALSE)
    ELSE StockError("UNKNOWN", <<"Unexpected error in ", context>>,
                    "Please try again or contact support if the problem persists", TRUE)

createStockError(error, context) ==
    IF MessageIncludes(error, FAILED_TO_FETCH) \/ MessageIncludes(error, NETWORK_ERROR)
    THEN StockError("NETWORK", <<"Unable to connect to stock data service">>,
                    "Check your internet connection and try again", TRUE)
    ELSE IF MessageIncludes(error, API_CALL_FREQUENCY) \/ MessageIncludes(error, RATE_LIMIT)
    THEN StockError("API_LIMIT", <<"Too many requests - API limit reached">>,
                    "Please wait a few minutes before trying again", TRUE)
    ELSE IF MessageIncludes(error, NOT_FOUND) \/ MessageIncludes(error, INVALID_API_CALL)
    THEN StockError("INVALID_SYMBOL", <<"Stock symbol not found">>,
                    "Check the stock symbol or try searching by company name", FALSE)
    ELSE IF MessageIncludes(error, NO_DATA_TEXT) \/ NoDataKeys(error)
    THEN StockError("NO_DATA", <<"No stock data available">>,
                    "This stock may not be actively traded or may be delisted", FALSE)
    ELSE StockError("UNKNOWN", <<"Unexpected error in ", context>>,
                    "Please try again or contact support if the problem persists", TRUE)

\* a catch block classifies the failure it caught
Classify ==
    /\ errOut = NoStockError
    /\ errOut' = createStockError(errIn, errCtx)
    /\ UNCHANGED <<errIn, errCtx, notErr>>

-----------------------------------------------------------------------------
(***************************************************************************)
(* The multi-symbol fetch operations: StockApiService.getMultipleStocks in *)
(* its three variants (Finnhub, Alpha Vantage, mock), refreshData of the   *)
(* page, and StockApiService.getRecommendations.  A step of the model is   *)
(* one turn of the event loop: a response or a timer arrives and the code  *)
(* runs until every promise is suspended again, so a request that the code *)
(* sends without waiting for anything but a microtask is sent in the step. *)
(***************************************************************************)

\* the longest symbol list handed to an operation
MaxBatch == 3

AAPL == <<"A","A","P","L">>
MSFTLower == <<"m","s","f","t">>
MSFT == <<"M","S","F","T">>
ZZZZ == <<"Z","Z","Z","Z">>
NVDA == <<"N","V","D","A">>
TSLA == <<"T","S","L","A">>
GOOGL == <<"G","O","O","G","L">>

StockData(symbol, name, price) == [symbol |-> symbol, name |-> name, price |-> price]

\* the table of the mock service; prices in cents
mockStocks ==
    (AAPL :> StockData(AAPL, <<"Apple Inc.">>, 18564)) @@
    (GOOGL :> StockData(GOOGL, <<"Alphabet Inc.">>, 14287)) @@
    (TSLA :> StockData(TSLA, <<"Tesla, Inc.">>, 23845)) @@
    (MSFT :> StockData(MSFT, <<"Microsoft Corporation">>, 37885)) @@
    (NVDA :> StockData(NVDA, <<"NVIDIA Corporation">>, 89114))

\* (Math.random() - 0.5) * 0.1, in thousandths
Variations == {-50, 0, 49}

\* what the quote and profile providers know: the same five companies
ProviderQuote(symbol) ==
    LET s == toUpperCase(symbol) IN
    IF s \in DOMAIN mockStocks THEN <<mockStocks[s]>> ELSE <<>>

\* symbols a caller may pass: listed, listed in lower case, and unlisted
SymbolPool == {AAPL, MSFTLower, ZZZZ}

RECURSIVE SeqsUpTo(_, _)
SeqsUpTo(S, n) ==
    IF n = 0 THEN {<<>>}
    ELSE LET shorter == SeqsUpTo(S, n - 1) IN
         shorter \cup {Append(q, x) : q \in {r \in shorter : Len(r) = n - 1}, x \in S}

Batches == SeqsUpTo(SymbolPool, MaxBatch)

\* const trendingSymbols = ['NVDA', 'TSLA', 'AAPL', 'MSFT', 'GOOGL']
trendingSymbols == <<NVDA, TSLA, AAPL, MSFT, GOOGL>>

\* Array.prototype.slice(from, to): a negative index counts from the end
slice(list, from, to) ==
    LET len == Len(list)
        clip(k) == IF k < 0 THEN (IF len + k < 0 THEN 0 ELSE len + k)
                   ELSE (IF k > len THEN len ELSE k)
    IN [i \in 1..(clip(to) - clip(from)) |-> list[clip(from) + i]]

\* ms of the setTimeout that follows a pushed quote in getMultipleStocks
BatchDelay(variant) == IF variant = "finnhub" THEN 1100 ELSE 12000

\* ms of the setTimeout that ends an iteration of getRecommendations
CandidateDelay(variant) == IF variant = "finnhub" THEN 1500 ELSE 12000

Operation(name, variant, newsKey, maxPrice) ==
    [name |-> name, variant |-> variant, newsKey |-> newsKey, maxPrice |-> maxPrice]
NoOperation == Operation("none", "none", FALSE, 0)

\* quote: "none", "timer" (mock), "request", "profile", "ok" or "failed";
\* news: "none", "request", "ok" (the list made of the provider's articles),
\* "placeholder" (the fallback list, no request failed) or "failed" (the
\* request failed and getStockNews resolved with its fallback list);
\* data: <<>> or <<the StockData>>; score: the newsScore of the news
Task(quote, news, data, score) == [quote |-> quote, news |-> news, data |-> data, score |-> score]
NoTask == Task("none", "none", <<>>, 0)

\* the promise of getStockNews is resolved
NewsDone(task) == task.news \in {"ok", "placeholder", "failed"}

RequestEvent(kind, i) == [ev |-> "request", kind |-> kind, idx |-> i, ms |-> 0]
DelayEvent(ms) == [ev |-> "delay", kind |-> "", idx |-> 0, ms |-> ms]

\* the provider requests of the operation that have not been answered yet
InFlight ==
    {<<i, "quote">> : i \in {k \in DOMAIN ftask : ftask[k].quote = "request"}}
    \cup {<<i, "profile">> : i \in {k \in DOMAIN ftask : ftask[k].quote = "profile"}}
    \cup {<<i, "news">> : i \in {k \in DOMAIN ftask : ftask[k].news = "request"}}

\* the operation awaits Promise.all over one getStock per symbol
FansOut(op) ==
    \/ op.name = "refreshData"
    \/ op.name = "getMultipleStocks" /\ op.variant = "mock"

\* companyNames[symbol.toUpperCase()] || symbol
getCompanyName(symbol) ==
    LET s == toUpperCase(symbol) IN
    CASE s = AAPL -> <<"Apple Inc">>
      [] s = GOOGL -> <<"Alphabet Google">>
      [] s = MSFT -> <<"Microsoft Corporation">>
      [] s = TSLA -> <<"Tesla Inc">>
      [] s = NVDA -> <<"NVIDIA Corporation">>
      [] OTHER -> symbol

\* positive minus negative items of the list that getStockNews falls back to:
\* getMockNews (two or three items, the third positive or neutral) in the
\* Finnhub variant, one neutral item in the Alpha Vantage variant
MockNewsScores(variant) == IF variant = "finnhub" THEN {1, 2} ELSE {0}

\* getStockNews keeps data.results.slice(0, 5)
MaxNews == 5

\* positive minus negative items of a list built from provider articles:
\* the balanced list and the two one-sided lists
ArticleScores == {-MaxNews, 0, MaxNews}

\* values of Math.random(), in thousandths
Randoms == {0, 999}

\* maxPrice arguments of getRecommendations, in cents; 0 is undefined
MaxPrices == {0, 30000}

\* the confidence of a recommendation, in thousandths of a point:
\* Math.max(50, 70 + newsScore * 5 + Math.random() * 15) in the Finnhub
\* variant, the same sum without Math.max in the Alpha Vantage variant
RecConfidence(variant, newsScore, r) ==
    LET raw == 70000 + newsScore * 5000 + r * 15 IN
    IF variant = "finnhub" /\ raw < 50000 THEN 50000 ELSE raw

\* targetPrice, upside, reason and newsImpact are left out; newsScore is the
\* score the reason and the newsImpact are made of
Recommendation(symbol, name, currentPrice, newsScore, confidence) ==
    [symbol |-> symbol, name |-> name, currentPrice |-> currentPrice,
     newsScore |-> newsScore, confidence |-> confidence]

\* for (const symbol of symbols) of getMultipleStocks: iteration j begins
\* by sending its quote request, or the loop is over and results is returned
BatchIterate(symbols, j, tasks, log) ==
    IF j > Len(symbols)
    THEN /\ fidx' = j
         /\ fpc' = "done"
         /\ fend' = "resolved"
         /\ ftask' = tasks
         /\ flog' = log
    ELSE /\ fidx' = j
         /\ fpc' = "await"
         /\ fend' = "running"
         /\ ftask' = [tasks EXCEPT ![j].quote = "request"]
         /\ flog' = Append(log, RequestEvent("quote", j))

\* for (const symbol of trendingSymbols.slice(0, 3)) of getRecommendations:
\* iteration j calls getStock and getStockNews inside Promise.all([...]), so
\* the quote request leaves, and after getCompanyName (a microtask) the news
\* request too; without a news key getStockNews returns its fallback list
RecsIterate(op, symbols, j, tasks, log) ==
    IF j > Len(symbols)
    THEN /\ fidx' = j
         /\ fpc' = "done"
         /\ fend' = "resolved"
         /\ ftask' = tasks
         /\ flog' = log
    ELSE /\ fidx' = j
         /\ fpc' = "await"
         /\ fend' = "running"
         /\ IF op.newsKey
            THEN /\ ftask' = [tasks EXCEPT ![j].quote = "request", ![j].news = "request"]
                 /\ flog' = log \o <<RequestEvent("quote", j), RequestEvent("news", j)>>
            ELSE /\ \E score \in MockNewsScores(op.variant) :
                        ftask' = [tasks EXCEPT ![j].quote = "request",
                                               ![j].news = "placeholder", ![j].score = score]
                 /\ flog' = Append(log, RequestEvent("quote", j))

\* Promise.all(symbols.map(symbol => getStock(symbol))): every call starts
PromiseAllStart(symbols, first) ==
    /\ ftask' = [i \in DOMAIN symbols |-> Task(first, "none", <<>>, 0)]
    /\ fidx' = 0
    /\ flog' = IF first = "request"
               THEN [i \in DOMAIN symbols |-> RequestEvent("quote", i)]
               ELSE <<>>
    /\ fpc' = IF symbols = <<>> THEN "done" ELSE "await"
    /\ fend' = IF symbols = <<>> THEN "resolved" ELSE "running"

\* both promises of candidate i are resolved: the body of the iteration runs
\* up to its setTimeout
Recommend(i, tasks) ==
    LET stockData == tasks[i].data[1]
        newsScore == tasks[i].score
        wanted == fop.variant = "finnhub" \/ newsScore >= 0
        affordable == fop.maxPrice = 0 \/ stockData.price <= fop.maxPrice
    IN /\ IF wanted /\ affordable
          THEN \E r \in Randoms :
                  fresults' = Append(fresults, Recommendation(stockData.symbol,
                                  getCompanyName(fsyms[i]), stockData.price, newsScore,
                                  RecConfidence(fop.variant, newsScore, r)))
          ELSE fresults' = fresults
       /\ ftask' = tasks
       /\ fpc' = "sleep"
       /\ UNCHANGED <<fidx, fend, flog>>

\* the promise of getStock(fsyms[i]) resolves with stock
GetStockResolves(i, stock) ==
    LET tasks == [ftask EXCEPT ![i].quote = "ok", ![i].data = <<stock>>] IN
    IF FansOut(fop)
    THEN /\ ftask' = tasks
         /\ IF fend = "running" /\ \A k \in DOMAIN tasks : tasks[k].quote = "ok"
            THEN /\ fend' = "resolved"
                 /\ fpc' = "done"
                 /\ fresults' = [k \in DOMAIN tasks |-> tasks[k].data[1]]
            ELSE UNCHANGED <<fend, fpc, fresults>>
         /\ UNCHANGED <<fidx, flog>>
    ELSE IF fop.name = "getMultipleStocks"
    THEN /\ ftask' = tasks
         /\ fresults' = Append(fresults, stock)
         /\ fpc' = "sleep"
         /\ UNCHANGED <<fidx, fend, flog>>
    ELSE IF NewsDone(tasks[i])
    THEN Recommend(i, tasks)
    ELSE /\ ftask' = tasks
         /\ UNCHANGED <<fidx, fpc, fresults, fend, flog>>

\* mutant: a rejected getStock ends the whole operation
GetStockRejectsAborts(i) ==
    /\ ftask' = [ftask EXCEPT ![i].quote = "failed"]
    /\ fend' = IF fend = "running" THEN "rejected" ELSE fend
    /\ fpc' = IF fend = "running" THEN "done" ELSE fpc
    /\ UNCHANGED <<fidx, fresults, flog>>

\* the promise of getStock(fsyms[i]) rejects
GetStockRejects(i) ==
    LET tasks == [ftask EXCEPT ![i].quote = "failed"] IN
    IF FansOut(fop)
    THEN /\ ftask' = tasks
         /\ fend' = IF fend = "running" THEN "rejected" ELSE fend
         /\ fpc' = IF fend = "running" THEN "done" ELSE fpc
         /\ UNCHANGED <<fidx, fresults, flog>>
    ELSE IF fop.name = "getMultipleStocks"
    THEN /\ BatchIterate(fsyms, i + 1, tasks, flog)
         /\ UNCHANGED fresults
    ELSE /\ RecsIterate(fop, fsyms, i + 1, tasks, flog)
         /\ UNCHANGED fresults

GetMultipleStocksStart(variant, symbols) ==
    /\ fend = "idle"
    /\ fop' = Operation("getMultipleStocks", variant, FALSE, 0)
    /\ fsyms' = symbols
    /\ fresults' = <<>>
    /\ IF variant = "mock"
       THEN PromiseAllStart(symbols, "timer")
       ELSE BatchIterate(symbols, 1, [i \in DOMAIN symbols |-> NoTask], <<>>)
    /\ UNCHANGED notFetch

\* symbols are those of the page's stocks, which getStock upper-cased
RefreshDataStart(symbols) ==
    /\ fend = "idle"
    /\ symbols # <<>>
    /\ \A i \in DOMAIN symbols : toUpperCase(symbols[i]) = symbols[i]
    /\ fop' = Operation("refreshData", "finnhub", FALSE, 0)
    /\ fsyms' = symbols
    /\ fresults' = <<>>
    /\ PromiseAllStart(symbols, "request")
    /\ UNCHANGED notFetch

GetRecommendationsStart(variant, newsKey, maxPrice) ==
    LET op == Operation("getRecommendations", variant, newsKey, maxPrice)
        symbols == slice(trendingSymbols, 0, 3)
    IN /\ fend = "idle"
       /\ fop' = op
       /\ fsyms' = symbols
       /\ fresults' = <<>>
       /\ RecsIterate(op, symbols, 1, [i \in DOMAIN symbols |-> NoTask], <<>>)
       /\ UNCHANGED notFetch

\* how a quote request can end: fetch or response.json() throws, a status
\* outside 2xx, a body that getStock refuses, or a quote
QuoteOutcomes(variant) ==
    IF variant = "finnhub"
    THEN {"reject", "non2xx", "apiError", "zero", "ok"}
    ELSE {"reject", "non2xx", "empty", "ok"}

QuoteSettles(i, outcome) ==
    /\ i \in DOMAIN ftask
    /\ ftask[i].quote = "request"
    /\ outcome \in QuoteOutcomes(fop.variant)
    /\ outcome = "ok" => ProviderQuote(fsyms[i]) # <<>>
    /\ IF outcome # "ok"
       THEN GetStockRejects(i)
       ELSE IF fop.variant = "finnhub"
       THEN /\ ftask' = [ftask EXCEPT ![i].quote = "profile"]
            /\ flog' = Append(flog, RequestEvent("profile", i))
            /\ UNCHANGED <<fidx, fpc, fresults, fend>>
       ELSE LET quote == ProviderQuote(fsyms[i])[1] IN
            GetStockResolves(i, StockData(quote.symbol, fsyms[i], quote.price))
    /\ UNCHANGED <<fop, fsyms>>
    /\ UNCHANGED notFetch

\* the profile request is best effort: without a name the symbol is the name
ProfileSettles(i, outcome) ==
    /\ i \in DOMAIN ftask
    /\ ftask[i].quote = "profile"
    /\ outcome \in {"reject", "non2xx", "noname", "name"}
    /\ LET quote == ProviderQuote(fsyms[i])[1]
           companyName == IF outcome = "name" THEN quote.name ELSE fsyms[i]
       IN GetStockResolves(i, StockData(toUpperCase(fsyms[i]), companyName, quote.price))
    /\ UNCHANGED <<fop, fsyms>>
    /\ UNCHANGED notFetch

\* the 500 ms timers of the mock getStock fire in the order they were set
MockTimerFires(i, variation) ==
    /\ i \in DOMAIN ftask
    /\ ftask[i].quote = "timer"
    /\ \A k \in 1..(i - 1) : ftask[k].quote # "timer"
    /\ variation \in Variations
    /\ LET s == toUpperCase(fsyms[i]) IN
       IF s \in DOMAIN mockStocks
       THEN GetStockResolves(i, [mockStocks[s] EXCEPT !.price = (@ * (1000 + variation)) \div 1000])
       ELSE GetStockRejects(i)
    /\ UNCHANGED <<fop, fsyms>>
    /\ UNCHANGED notFetch

\* how a news request can end: a list of articles, a body without articles,
\* or a failure (fetch throws or a status outside 2xx)
NewsOutcomes == {"articles", "empty", "failed"}

\* getStockNews never rejects: it resolves with the articles or with its
\* fallback list; an empty articles array of the Alpha Vantage provider maps
\* to an empty list
NewsSettles(i, outcome, score) ==
    /\ i \in DOMAIN ftask
    /\ ftask[i].news = "request"
    /\ outcome \in NewsOutcomes
    /\ score \in (CASE outcome = "articles" -> ArticleScores
                   [] outcome = "empty" /\ fop.variant = "alphavantage" -> {0}
                   [] OTHER -> MockNewsScores(fop.variant))
    /\ LET news == CASE outcome = "articles" -> "ok"
                     [] outcome = "empty" /\ fop.variant = "alphavantage" -> "ok"
                     [] outcome = "empty" -> "placeholder"
                     [] OTHER -> "failed"
           tasks == [ftask EXCEPT ![i].news = news, ![i].score = score] IN
       IF i = fidx /\ fpc = "await" /\ tasks[i].quote = "ok"
       THEN Recommend(i, tasks)
       ELSE /\ ftask' = tasks
            /\ UNCHANGED <<fidx, fpc, fresults, fend, flog>>
    /\ UNCHANGED <<fop, fsyms>>
    /\ UNCHANGED notFetch

\* the setTimeout at the end of a successful iteration fires
DelayElapses ==
    /\ fpc = "sleep"
    /\ IF fop.name = "getMultipleStocks"
       THEN BatchIterate(fsyms, fidx + 1, ftask,
                         Append(flog, DelayEvent(BatchDelay(fop.variant))))
       ELSE RecsIterate(fop, fsyms, fidx + 1, ftask,
                        Append(flog, DelayEvent(CandidateDelay(fop.variant))))
    /\ UNCHANGED <<fop, fsyms, fresults>>
    /\ UNCHANGED notFetch

-----------------------------------------------------------------------------
(***************************************************************************)
(* One call of a StockApiService function by the page, from the call to    *)
(* the settled promise, and the catch block of the page that classifies a  *)
(* rejection.                                                              *)
(***************************************************************************)

\* newsKey: whether the build has a key of the news provider; arg: the
\* second argument of the call, if it has one
Call(fn, variant, newsKey, symbol, arg, pc) ==
    [fn |-> fn, variant |-> variant, newsKey |-> newsKey, symbol |-> symbol,
     arg |-> arg, pc |-> pc]
NoCall == Call("none", "none", FALSE, <<>>, 0, "idle")

\* how the promise of the call stands: value holds what it resolved with,
\* cause and message what it rejected with
Settled(kind, cause, message, value) ==
    [kind |-> kind, cause |-> cause, message |-> message, value |-> value,
     answer |-> <<>>, estimate |-> <<>>]
NotSettled == Settled("none", "", <<>>, <<>>)

\* the same, with the list that the provider answered and the value was made of
SettledFrom(answer, kind, cause, message, value) ==
    [Settled(kind, cause, message, value) EXCEPT !.answer = answer]

\* a query no company matches, as searchStocks hands it on: upper-cased
RateLimitQuery == <<"R","A","T","E"," ","L","I","M","I","T">>

CallSymbols == SymbolPool \cup {RateLimitQuery}

\* `${symbol}` inside a message: the words of the symbol
SymbolText(symbol) ==
    CASE symbol = AAPL -> <<"AAPL">>
      [] symbol = MSFTLower -> <<"msft">>
      [] symbol = ZZZZ -> <<"ZZZZ">>
      [] symbol = RateLimitQuery -> <<"RATE", "LIMIT">>
      [] OTHER -> <<"?">>

\* messages of the TypeError that fetch rejects with, by browser
FetchRejections ==
    { <<"Failed", "to", "fetch">>,
      <<"NetworkError", "when", "attempting", "to", "fetch", "resource.">> }

\* response.statusText of answers outside 2xx
StatusTexts == { <<"Not", "Found">>, <<"Too", "Many", "Requests">>, <<>> }

\* data.error of a Finnhub answer
ProviderErrors == { <<"API", "limit", "reached.">>, <<"Invalid", "API", "key">> }

\* mutant: the message of a Finnhub quote without a price leaves out "not found"
ZeroQuoteMessageNoData(variant, symbol) ==
    IF variant = "finnhub"
    THEN <<"Stock">> \o SymbolText(symbol) \o <<"no", "data", "available">>
    ELSE <<"Stock">> \o SymbolText(symbol) \o <<"not", "found">>

\* the message getStock throws on a quote without a price (!data.c) or an
\* empty "Global Quote"
ZeroQuoteMessage(variant, symbol) ==
    IF variant = "finnhub"
    THEN <<"Stock">> \o SymbolText(symbol) \o <<"not", "found", "or", "no", "data", "available">>
    ELSE <<"Stock">> \o SymbolText(symbol) \o <<"not", "found">>

GetStockCall(variant, symbol) ==
    /\ call = NoCall
    /\ call' = Call("getStock", variant, FALSE, symbol, 0, "quote")
    /\ UNCHANGED ret
    /\ UNCHANGED notCall

\* the fetch of the quote rejects, or response.json() throws
GetStockFetchThrows(message) ==
    /\ call.fn = "getStock" /\ call.pc = "quote"
    /\ message \in FetchRejections
    /\ call' = [call EXCEPT !.pc = "done"]
    /\ ret' = Settled("rejected", "reject", message, <<>>)
    /\ UNCHANGED notCall

\* if (!response.ok) throw new Error(`Failed to fetch stock data: ...`)
GetStockNotOk(statusText) ==
    /\ call.fn = "getStock" /\ call.pc = "quote"
    /\ statusText \in StatusTexts
    /\ call' = [call EXCEPT !.pc = "done"]
    /\ ret' = Settled("rejected", "non2xx",
                      <<"Failed", "to", "fetch", "stock", "data:">> \o statusText, <<>>)
    /\ UNCHANGED notCall

\* if (data.error) throw new Error(`API Error: ${data.error}`), Finnhub only
GetStockApiError(error) ==
    /\ call.fn = "getStock" /\ call.pc = "quote" /\ call.variant = "finnhub"
    /\ error \in ProviderErrors
    /\ call' = [call EXCEPT !.pc = "done"]
    /\ ret' = Settled("rejected", "apiError", <<"API", "Error:">> \o error, <<>>)
    /\ UNCHANGED notCall

\* the answer holds no price (Finnhub) or no or an empty quote (Alpha Vantage)
GetStockZeroQuote ==
    /\ call.fn = "getStock" /\ call.pc = "quote"
    /\ call' = [call EXCEPT !.pc = "done"]
    /\ ret' = Settled("rejected", "zero", ZeroQuoteMessage(call.variant, call.symbol), <<>>)
    /\ UNCHANGED notCall

\* the answer holds a quote: Finnhub goes on to the profile request
GetStockQuote ==
    /\ call.fn = "getStock" /\ call.pc = "quote"
    /\ ProviderQuote(call.symbol) # <<>>
    /\ LET quote == ProviderQuote(call.symbol)[1] IN
       IF call.variant = "finnhub"
       THEN /\ call' = [call EXCEPT !.pc = "profile"]
            /\ UNCHANGED ret
       ELSE /\ call' = [call EXCEPT !.pc = "done"]
            /\ ret' = Settled("resolved", "", <<>>,
                              <<StockData(quote.symbol, call.symbol, quote.price)>>)
    /\ UNCHANGED notCall

GetStockProfile(outcome) ==
    /\ call.fn = "getStock" /\ call.pc = "profile"
    /\ outcome \in {"reject", "non2xx", "noname", "name"}
    /\ LET quote == ProviderQuote(call.symbol)[1]
           companyName == IF outcome = "name" THEN quote.name ELSE call.symbol
       IN ret' = Settled("resolved", "", <<>>,
                         <<StockData(toUpperCase(call.symbol), companyName, quote.price)>>)
    /\ call' = [call EXCEPT !.pc = "done"]
    /\ UNCHANGED notCall

\* catch (error) { const stockError = createStockError(error, 'adding stock') }
CatchGetStock ==
    /\ call.fn = "getStock" /\ ret.kind = "rejected"
    /\ errOut = NoStockError
    /\ errIn' = [hasMessage |-> TRUE, message |-> ret.message,
                 data |-> [kind |-> "undefined", keys |-> 0]]
    /\ errCtx' = "adding stock"
    /\ errOut' = createStockError(errIn', errCtx')
    /\ UNCHANGED <<call, ret>>
    /\ UNCHANGED <<storeVars, rateVars, fetchVars, pageVars, logVars>>

-----------------------------------------------------------------------------
(***************************************************************************)
(* One call of getStockNews.  The sentiment of an item is the one that     *)
(* analyzeSentiment gives to the article; an answer of the provider is     *)
(* the list of these sentiments, one per article.                          *)
(***************************************************************************)

\* the longest list of articles in an answer of the news provider
MaxArticles == 6

Sentiments == {"positive", "negative", "neutral"}

NewsItem(sentiment, source) == [sentiment |-> sentiment, source |-> source]

\* the answers of the news provider: the sentiments of up to MaxArticles articles
ArticleLists == SeqsUpTo(Sentiments, MaxArticles)

\* mockNews.slice(0, 2 + Math.floor(Math.random() * 2)), the third item
\* positive or neutral by Math.random() > 0.3
getMockNews ==
    { slice(<<NewsItem("positive", "Market Watch"), NewsItem("neutral", "Financial Times"),
              NewsItem(third, "Bloomberg")>>, 0, n) :
        third \in {"positive", "neutral"}, n \in {2, 3} }

\* the lists getStockNews returns in place of provider news
PlaceholderNews(variant, source) ==
    IF variant = "finnhub" THEN getMockNews ELSE { <<NewsItem("neutral", source)>> }

\* the items built from the first five articles
NewsItems(articles, source) ==
    LET first == slice(articles, 0, 5) IN
    [i \in DOMAIN first |-> NewsItem(first[i], source)]

GetStockNewsCall(variant, newsKey, symbol) ==
    /\ call = NoCall
    /\ IF newsKey
       THEN /\ call' = Call("getStockNews", variant, newsKey, symbol, 0, "news")
            /\ UNCHANGED ret
       ELSE /\ call' = Call("getStockNews", variant, newsKey, symbol, 0, "done")
            /\ \E news \in PlaceholderNews(variant, "Mock Data") :
                  ret' = Settled("resolved", "nokey", <<>>, news)
    /\ UNCHANGED notCall

\* fetch rejects or response.json() throws: the catch block falls back
NewsFetchThrows ==
    /\ call.fn = "getStockNews" /\ call.pc = "news"
    /\ call' = [call EXCEPT !.pc = "done"]
    /\ \E news \in PlaceholderNews(call.variant, "Fallback Data") :
          ret' = Settled("resolved", "reject", <<>>, news)
    /\ UNCHANGED notCall

\* !response.ok: 429 returns mock news (Finnhub variant), every other status
\* and every status of the Alpha Vantage variant throws into the catch block
NewsNotOk(status) ==
    /\ call.fn = "getStockNews" /\ call.pc = "news"
    /\ status \in {429, 500}
    /\ call' = [call EXCEPT !.pc = "done"]
    /\ \E news \in PlaceholderNews(call.variant, "Fallback Data") :
          ret' = Settled("resolved", IF status = 429 THEN "429" ELSE "non2xx", <<>>, news)
    /\ UNCHANGED notCall

\* the answer has no list of articles: !data.results (Finnhub variant),
\* a TypeError on data.articles.slice caught by the catch block (the other)
NewsNoList ==
    /\ call.fn = "getStockNews" /\ call.pc = "news"
    /\ call' = [call EXCEPT !.pc = "done"]
    /\ \E news \in PlaceholderNews(call.variant, "Fallback Data") :
          ret' = Settled("resolved", "missing", <<>>, news)
    /\ UNCHANGED notCall

\* the answer has a list of articles, possibly empty
NewsArticles(articles) ==
    /\ call.fn = "getStockNews" /\ call.pc = "news"
    /\ articles \in ArticleLists
    /\ call' = [call EXCEPT !.pc = "done"]
    /\ IF call.variant = "finnhub"
       THEN IF Len(articles) = 0
            THEN \E news \in getMockNews : ret' = Settled("resolved", "zero", <<>>, news)
            ELSE ret' = Settled("resolved", "articles", <<>>, NewsItems(articles, "NewsData"))
       ELSE ret' = Settled("resolved", IF Len(articles) = 0 THEN "zero" ELSE "articles",
                           <<>>, NewsItems(articles, "NewsAPI"))
    /\ UNCHANGED notCall

-----------------------------------------------------------------------------
(***************************************************************************)
(* One call of getForecast.  Prices are in cents, Math.random() is a       *)
(* number of thousandths in 0..999, a confidence is in thousandths and a   *)
(* volatility in millionths.  Of a forecast point the model keeps period,  *)
(* confidence and trend; prediction, label and reasoning are derived from  *)
(* the same estimate and no property below reads them.                     *)
(***************************************************************************)

\* the longest list of closes in an answer of the history provider
MaxWindow == 10

\* the closes a list is made of, in cents
Closes == {10000, 11000}

Windows == SeqsUpTo(Closes, MaxWindow)

\* the result of 0 / 0
NaN == -1

RECURSIVE Sum(_)
Sum(list) == IF list = <<>> THEN 0 ELSE list[1] + Sum(Tail(list))

Abs(x) == IF x < 0 THEN -x ELSE x

\* the closes getForecast looks at: the last ten (Finnhub, oldest first) or
\* the first ten (Alpha Vantage, newest first)
ForecastPrices(variant, window) ==
    IF variant = "finnhub" THEN slice(window, -10, Len(window)) ELSE slice(window, 0, 10)

\* the slices that recentAvg and olderAvg are computed from
RecentSlice(variant, prices) ==
    IF variant = "finnhub" THEN slice(prices, -5, Len(prices)) ELSE slice(prices, 0, 5)

OlderSlice(variant, prices) ==
    IF variant = "finnhub" THEN slice(prices, -10, -5) ELSE slice(prices, 5, 10)

\* recentAvg and olderAvg: the sum of a slice divided by 5, in thousandths of a cent
RecentAvg(variant, prices) == Sum(RecentSlice(variant, prices)) * 200

OlderAvg(variant, prices) == Sum(OlderSlice(variant, prices)) * 200

\* if (recentAvg > olderAvg * 1.02) "up" else if (recentAvg < olderAvg * 0.98) "down"
ForecastTrend(variant, prices) ==
    IF RecentAvg(variant, prices) * 100 > OlderAvg(variant, prices) * 102 THEN "up"
    ELSE IF RecentAvg(variant, prices) * 100 < OlderAvg(variant, prices) * 98 THEN "down"
    ELSE "neutral"

\* the mean of |price - previous| / previous over prices.slice(1)
ForecastVolatility(prices) ==
    LET changes == [i \in 1..(Len(prices) - 1) |->
                       (Abs(prices[i + 1] - prices[i]) * 1000000) \div prices[i]]
    IN IF Len(prices) <= 1 THEN NaN ELSE Sum(changes) \div Len(changes)

Estimate(trend, volatility) == [trend |-> trend, volatility |-> volatility]

\* let trend = "neutral"; let volatility = 0.05
DefaultEstimate == Estimate("neutral", 50000)

\* mutant: the base confidence of a trend that is not neutral is 90
BaseConfidenceHigh(trend) == IF trend = "neutral" THEN 60 ELSE 90

\* const baseConfidence = trend === "neutral" ? 60 : 75
BaseConfidence(trend) == IF trend = "neutral" THEN 60 ELSE 75

ForecastPoint(period, confidence, trend) ==
    [period |-> period, confidence |-> confidence, trend |-> trend]

\* the return statement of the try block; rs are the values of Math.random()
\* that the three confidences draw
NormalForecast(estimate, rs) ==
    << ForecastPoint("1d", BaseConfidence(estimate.trend) * 1000 + rs[1] * 15, estimate.trend),
       ForecastPoint("1w", (BaseConfidence(estimate.trend) - 10) * 1000 + rs[2] * 15, estimate.trend),
       ForecastPoint("1m", (BaseConfidence(estimate.trend) - 20) * 1000 + rs[3] * 20, estimate.trend) >>

\* mutant: the fallback leaves out the weekly point
FallbackForecastTwoPoints(rs) ==
    << ForecastPoint("1d", 70000 + rs[1] * 20, IF rs[2] > 500 THEN "up" ELSE "down"),
       ForecastPoint("1m", 50000 + rs[5] * 30, IF rs[6] > 300 THEN "up" ELSE "down") >>

\* the return statement of the catch block; rs are the values of
\* Math.random() that the confidences and the trends draw
FallbackForecast(rs) ==
    << ForecastPoint("1d", 70000 + rs[1] * 20, IF rs[2] > 500 THEN "up" ELSE "down"),
       ForecastPoint("1w", 60000 + rs[3] * 25, IF rs[4] > 400 THEN "up" ELSE "down"),
       ForecastPoint("1m", 50000 + rs[5] * 30, IF rs[6] > 300 THEN "up" ELSE "down") >>

\* addStock calls getForecast(symbol, stockData.price) with the quote it got
GetForecastCall(variant, symbol) ==
    /\ call = NoCall
    /\ ProviderQuote(symbol) # <<>>
    /\ call' = Call("getForecast", variant, FALSE, symbol, ProviderQuote(symbol)[1].price, "history")
    /\ UNCHANGED ret
    /\ UNCHANGED notCall

\* fetch rejects or response.json() throws: the catch block
ForecastFetchThrows ==
    /\ call.fn = "getForecast" /\ call.pc = "history"
    /\ call' = [call EXCEPT !.pc = "done"]
    /\ \E rs \in [1..6 -> Randoms] :
          ret' = Settled("resolved", "reject", <<>>, FallbackForecast(rs))
    /\ UNCHANGED notCall

\* the answer is outside 2xx, or holds no closes (no data.c or an empty one,
\* no "Time Series (Daily)"): trend and volatility keep their initial values
ForecastNoHistory(cause) ==
    /\ call.fn = "getForecast" /\ call.pc = "history"
    /\ cause \in {"non2xx", "nodata"}
    /\ call' = [call EXCEPT !.pc = "done"]
    /\ \E rs \in [1..3 -> Randoms] :
          ret' = [Settled("resolved", cause, <<>>, NormalForecast(DefaultEstimate, rs))
                      EXCEPT !.estimate = <<DefaultEstimate>>]
    /\ UNCHANGED notCall

\* the answer holds closes; an empty "Time Series (Daily)" object counts
ForecastHistory ==
    /\ call.fn = "getForecast" /\ call.pc = "history"
    /\ call' = [call EXCEPT !.pc = "done"]
    /\ \E window \in Windows, rs \in [1..3 -> Randoms] :
          /\ call.variant = "finnhub" => window # <<>>
          /\ LET prices == ForecastPrices(call.variant, window)
                 estimate == Estimate(ForecastTrend(call.variant, prices),
                                      ForecastVolatility(prices))
             IN ret' = [SettledFrom(window, "resolved", "history", <<>>,
                                    NormalForecast(estimate, rs))
                           EXCEPT !.estimate = <<estimate>>]
    /\ UNCHANGED notCall

-----------------------------------------------------------------------------
(***************************************************************************)
(* analyzeSentiment.  A text is a sequence of characters, so that          *)
(* toLowerCase and includes are computed on it.  The Finnhub variant       *)
(* classifies by keywords, the Alpha Vantage variant asks a remote model.  *)
(***************************************************************************)

\* the upper-case letters of the texts below
LowerChar(ch) ==
    IF \E i \in DOMAIN UpperLetters : UpperLetters[i] = ch
    THEN LowerLetters[CHOOSE i \in DOMAIN UpperLetters : UpperLetters[i] = ch]
    ELSE ch

toLowerCase(s) == [i \in DOMAIN s |-> LowerChar(s[i])]

positiveKeywords ==
    << <<"g","r","o","w","t","h">>, <<"p","r","o","f","i","t">>, <<"s","t","r","o","n","g">>, <<"p","o","s","i","t","i","v","e">>, <<"i","n","c","r","e","a","s","e">>, <<"b","u","l","l","i","s","h">>,
       <<"o","u","t","p","e","r","f","o","r","m">>, <<"b","u","y">>, <<"u","p","g","r","a","d","e">>, <<"b","e","a","t">>, <<"e","x","c","e","e","d">> >>

negativeKeywords ==
    << <<"l","o","s","s">>, <<"d","e","c","l","i","n","e">>, <<"w","e","a","k">>, <<"n","e","g","a","t","i","v","e">>, <<"d","e","c","r","e","a","s","e">>, <<"b","e","a","r","i","s","h">>,
       <<"u","n","d","e","r","p","e","r","f","o","r","m">>, <<"s","e","l","l">>, <<"d","o","w","n","g","r","a","d","e">>, <<"m","i","s","s">>, <<"b","e","l","o","w">> >>

\* keywords.forEach(keyword => { if (lowerText.includes(keyword)) score++ })
KeywordScore(keywords, lowerText) ==
    Cardinality({k \in DOMAIN keywords : StrIncludes(lowerText, keywords[k])})

\* the keyword classifier of the Finnhub variant
analyzeSentiment(text) ==
    LET lowerText == toLowerCase(text)
        positiveScore == KeywordScore(positiveKeywords, lowerText)
        negativeScore == KeywordScore(negativeKeywords, lowerText)
    IN IF positiveScore > negativeScore THEN "positive"
       ELSE IF negativeScore > positiveScore THEN "negative"
       ELSE "neutral"

\* the longest text, in words
MaxWords == 3

\* the words a text is made of: keywords in several letter cases, a word
\* that holds a keyword, and a word that holds none
Words == { <<"g","r","o","w","t","h">>, <<"G","r","o","w","t","h">>, <<"L","O","S","S">>, <<"l","o","s","s","e","s">>, <<"b","u","y">>, <<"n","e","w","s">> }

RECURSIVE JoinWords(_)
JoinWords(ws) ==
    IF Len(ws) = 0 THEN <<>>
    ELSE IF Len(ws) = 1 THEN ws[1]
    ELSE ws[1] \o <<" ">> \o JoinWords(Tail(ws))

Texts == { JoinWords(ws) : ws \in SeqsUpTo(Words, MaxWords) }

\* a call of the keyword classifier: no request, the promise resolves
AnalyzeSentimentKeywords(text) ==
    /\ call = NoCall
    /\ call' = Call("analyzeSentiment", "finnhub", FALSE, text, 0, "done")
    /\ ret' = Settled("resolved", "keywords", <<>>, <<analyzeSentiment(text)>>)
    /\ UNCHANGED notCall

\* the labels of the remote model and the classes the code reads them as
Labels == {"LABEL_0", "LABEL_1", "LABEL_2"}

LabelClass(label) ==
    IF label = "LABEL_2" THEN "positive"
    ELSE IF label = "LABEL_0" THEN "negative"
    ELSE "neutral"

\* the longest list of scored labels in an answer of the remote model
MaxLabels == 3

\* scores of the remote model, in thousandths
ScoreValues == {0, 300, 700}

ScoreItem(label, score) == [label |-> label, score |-> score]

\* result[0] || []: the scored labels of an answer, none if there is no result[0]
ScoreLists ==
    SeqsUpTo({ScoreItem(label, score) : label \in Labels, score \in ScoreValues}, MaxLabels)

\* mutant: the class of the last label, whatever its score
PickSentimentLast(scores, maxScore, sentiment) ==
    IF scores = <<>> THEN sentiment ELSE LabelClass(scores[Len(scores)].label)

\* for (const item of scores) { if (item.score > maxScore) { ... } }
RECURSIVE PickSentiment(_, _, _)
PickSentiment(scores, maxScore, sentiment) ==
    IF scores = <<>> THEN sentiment
    ELSE LET item == Head(scores) IN
         IF item.score > maxScore
         THEN PickSentiment(Tail(scores), item.score, LabelClass(item.label))
         ELSE PickSentiment(Tail(scores), maxScore, sentiment)

\* a call of the remote classifier; hfKey: the build has HF_API_KEY
AnalyzeSentimentCall(hfKey, text) ==
    /\ call = NoCall
    /\ IF hfKey
       THEN /\ call' = Call("analyzeSentiment", "alphavantage", hfKey, text, 0, "sentiment")
            /\ UNCHANGED ret
       ELSE /\ call' = Call("analyzeSentiment", "alphavantage", hfKey, text, 0, "done")
            /\ ret' = Settled("resolved", "nokey", <<>>, <<"neutral">>)
    /\ UNCHANGED notCall

\* fetch rejects, response.json() throws, or the body is not an array of
\* iterables: the catch block returns neutral
SentimentThrows ==
    /\ call.fn = "analyzeSentiment" /\ call.pc = "sentiment"
    /\ call' = [call EXCEPT !.pc = "done"]
    /\ ret' = Settled("resolved", "reject", <<>>, <<"neutral">>)
    /\ UNCHANGED notCall

\* if (!response.ok) return "neutral"
SentimentNotOk ==
    /\ call.fn = "analyzeSentiment" /\ call.pc = "sentiment"
    /\ call' = [call EXCEPT !.pc = "done"]
    /\ ret' = Settled("resolved", "non2xx", <<>>, <<"neutral">>)
    /\ UNCHANGED notCall

\* a 2xx answer whose result[0] || [] is scores
SentimentScores(scores) ==
    /\ call.fn = "analyzeSentiment" /\ call.pc = "sentiment"
    /\ call' = [call EXCEPT !.pc = "done"]
    /\ ret' = SettledFrom(scores, "resolved", "scores", <<>>,
                          <<PickSentiment(scores, 0, "neutral")>>)
    /\ UNCHANGED notCall

\* analyzeStock: the news items by their sentiment label
MaxItems == 4

NewsLists == UNION {[1..n -> Sentiments] : n \in 0..MaxItems}

\* news.filter(n => n.sentiment === sentiment).length
CountSentiment(news, sentiment) == Len(SelectSeq(news, LAMBDA n : n = sentiment))

analyzeStockByMajority(news) ==
    LET positiveNews == CountSentiment(news, "positive")
        negativeNews == CountSentiment(news, "negative")
    IN  IF positiveNews > negativeNews THEN "BUY"
        ELSE IF negativeNews > positiveNews THEN "SELL"
        ELSE "HOLD"

\* the recommendation of analyzeStock; the insight is a text for display
analyzeStock(news) ==
    LET positiveNews == CountSentiment(news, "positive")
        negativeNews == CountSentiment(news, "negative")
        sentimentScore == positiveNews - negativeNews
        totalNews == Len(news)
    IN  IF sentimentScore >= 2 /\ totalNews >= 3 THEN "BUY"
        ELSE IF sentimentScore <= -2 /\ totalNews >= 3 THEN "SELL"
        ELSE IF totalNews < 2 THEN "HOLD"
        ELSE "HOLD"

\* analyzeStock awaits nothing: a call is one step
AnalyzeStockCall(news) ==
    /\ call = NoCall
    /\ call' = Call("analyzeStock", "finnhub", FALSE, news, 0, "done")
    /\ ret' = Settled("resolved", "recommendation", <<>>, <<analyzeStock(news)>>)
    /\ UNCHANGED notCall

-----------------------------------------------------------------------------
(***************************************************************************)
(* searchStocks, in its two variants: the client's returns records sorted  *)
(* by match quality, the other one returns symbols.  Queries, company      *)
(* names and symbols are sequences of characters.  The company map of the  *)
(* model holds five entries of the 24 that both variants share, in the     *)
(* order of the source.                                                    *)
(***************************************************************************)

\* words of a query
MaxQueryWords == 2

Company(company, symbols) == [company |-> company, symbols |-> symbols]

COMPANY_SEARCH_MAP ==
    << Company(<<"a","p","p","l","e">>, << <<"A","A","P","L">> >>),
       Company(<<"a","l","p","h","a","b","e","t">>, << <<"G","O","O","G","L">>, <<"G","O","O","G">> >>),
       Company(<<"g","o","o","g","l","e">>, << <<"G","O","O","G","L">>, <<"G","O","O","G">> >>),
       Company(<<"a","m","d">>, << <<"A","M","D">> >>),
       Company(<<"c","o","c","a"," ","c","o","l","a">>, << <<"K","O">> >>) >>

QueryWords ==
    { <<"A","p","p","l","e">>, <<"a","p","p","l","e">>, <<"G","o","o","g","l","e">>, <<"G","O","O","G","L","E">>, <<"a","l","p","h","a","b","e","t">>, <<"a","m","d">>,
      <<"C","o","c","a">>, <<"c","o","l","a">>, <<"z","e","d">>, <<>> }

Queries == { JoinWords(ws) : ws \in SeqsUpTo(QueryWords, MaxQueryWords) }

\* String.prototype.trim, for blanks
RECURSIVE trimStart(_)
trimStart(s) == IF s # <<>> /\ s[1] = " " THEN trimStart(Tail(s)) ELSE s

RECURSIVE trimEnd(_)
trimEnd(s) ==
    IF s # <<>> /\ s[Len(s)] = " " THEN trimEnd(SubSeq(s, 1, Len(s) - 1)) ELSE s

trim(s) == trimEnd(trimStart(s))

\* String.prototype.split(' ')
RECURSIVE split(_)
split(s) ==
    IF \E i \in DOMAIN s : s[i] = " "
    THEN LET i == CHOOSE k \in DOMAIN s : s[k] = " " /\ \A l \in 1..(k - 1) : s[l] # " "
         IN  <<SubSeq(s, 1, i - 1)>> \o split(SubSeq(s, i + 1, Len(s)))
    ELSE <<s>>

\* /^[A-Z]{1,5}$/.test(s)
IsSymbol(s) ==
    /\ Len(s) \in 1..5
    /\ \A i \in DOMAIN s : \E k \in DOMAIN UpperLetters : UpperLetters[k] = s[i]

RECURSIVE Flat(_)
Flat(lists) == IF lists = <<>> THEN <<>> ELSE lists[1] \o Flat(Tail(lists))

Match(symbol, companyName, match) ==
    [symbol |-> symbol, companyName |-> companyName, match |-> match]

\* the number of query words that a word of the company name contains or
\* that contain one
WordMatches(company, normalizedQuery) ==
    LET companyWords == split(company)
        queryWords == split(normalizedQuery)
    IN  Cardinality({q \in DOMAIN queryWords :
            \E c \in DOMAIN companyWords :
                \/ StrIncludes(companyWords[c], queryWords[q])
                \/ StrIncludes(queryWords[q], companyWords[c])})

\* the kind of match of a company name, "none" when it does not match;
\* wordMatches >= Math.min(queryWords.length * 0.6, companyWords.length * 0.5)
\* is compared in tenths
MatchOf(company, normalizedQuery) ==
    LET wordMatches == WordMatches(company, normalizedQuery)
        sixTenths == Len(split(normalizedQuery)) * 6
        fiveTenths == Len(split(company)) * 5
        least == IF sixTenths < fiveTenths THEN sixTenths ELSE fiveTenths
    IN  IF company = normalizedQuery THEN "exact"
        ELSE IF StrIncludes(company, normalizedQuery) \/ StrIncludes(normalizedQuery, company)
        THEN "partial"
        ELSE IF wordMatches > 0 /\ wordMatches * 10 >= least THEN "fuzzy"
        ELSE "none"

\* Array.from(new Map(matches.map(m => [m.symbol, m])).values()): a symbol
\* stands where it came first, with the match that came last
RECURSIVE UniqueMatches(_, _)
UniqueMatches(matches, i) ==
    IF i > Len(matches) THEN <<>>
    ELSE IF \E j \in 1..(i - 1) : matches[j].symbol = matches[i].symbol
    THEN UniqueMatches(matches, i + 1)
    ELSE LET last == CHOOSE j \in i..Len(matches) :
                        /\ matches[j].symbol = matches[i].symbol
                        /\ \A l \in (j + 1)..Len(matches) : matches[l].symbol # matches[i].symbol
         IN  <<matches[last]>> \o UniqueMatches(matches, i + 1)

\* the stable sort by match quality
SortMatches(matches) ==
    SelectSeq(matches, LAMBDA m : m.match = "exact")
        \o SelectSeq(matches, LAMBDA m : m.match = "partial")
        \o SelectSeq(matches, LAMBDA m : m.match = "fuzzy")

\* the client's searchStocks
searchStocksClient(query) ==
    LET normalizedQuery == trim(toLowerCase(query))
        matches == Flat([k \in DOMAIN COMPANY_SEARCH_MAP |->
                        LET company == COMPANY_SEARCH_MAP[k].company
                            symbols == COMPANY_SEARCH_MAP[k].symbols
                            match == MatchOf(company, normalizedQuery)
                        IN  IF match = "none" THEN <<>>
                            ELSE [j \in DOMAIN symbols |-> Match(symbols[j], company, match)]])
        uniqueMatches == SortMatches(UniqueMatches(matches, 1))
    IN  IF IsSymbol(toUpperCase(query))
        THEN <<Match(toUpperCase(query), toUpperCase(query), "symbol")>>
        ELSE IF Len(uniqueMatches) > 0 THEN uniqueMatches
        ELSE <<Match(toUpperCase(query), <<"U","n","k","n","o","w","n"," ","C","o","m","p","a","n","y">>, "fallback")>>

\* searchStocks of src/services
searchStocks(query) ==
    LET normalizedQuery == trim(toLowerCase(query))
        matches == Flat([k \in DOMAIN COMPANY_SEARCH_MAP |->
                        IF \/ StrIncludes(COMPANY_SEARCH_MAP[k].company, normalizedQuery)
                           \/ StrIncludes(normalizedQuery, COMPANY_SEARCH_MAP[k].company)
                        THEN COMPANY_SEARCH_MAP[k].symbols ELSE <<>>])
    IN  IF IsSymbol(toUpperCase(query)) THEN <<toUpperCase(query)>>
        ELSE IF Len(matches) > 0 THEN matches
        ELSE <<toUpperCase(query)>>

\* searchStocks awaits nothing: a call is one step
SearchStocksCall(variant, query) ==
    /\ call = NoCall
    /\ call' = Call("searchStocks", variant, FALSE, query, 0, "done")
    /\ ret' = IF variant = "finnhub"
              THEN Settled("resolved", "matches", <<>>, searchStocksClient(query))
              ELSE Settled("resolved", "symbols", <<>>, searchStocks(query))
    /\ UNCHANGED notCall

-----------------------------------------------------------------------------
(***************************************************************************)
(* The page Index: the displayed portfolio, the shared loading flag and    *)
(* the handlers loadStoredStocks, addStock, removeStock, refreshData and   *)
(* loadRecommendations, each from its call to its end.  A step runs a      *)
(* handler up to the next await on a request.  The awaits of addStock on   *)
(* getStockNews, analyzeStock and getForecast never reject and touch no    *)
(* state of the page, so they are part of the step of getStock.  The       *)
(* Watchlist Store is the set of active symbols that /api/stocks serves.   *)
(* Prices and changes are in cents, a changePercent in hundredths.         *)
(***************************************************************************)

\* handlers that can be in flight at once
MaxOps == 3

\* handlers the user starts after the page has mounted
MaxStarts == 2

\* the symbols the search results and the recommendations offer, in the
\* order in which the store lists them
PageSymbols == <<AAPL, MSFT>>

PageSymbolSet == {PageSymbols[i] : i \in DOMAIN PageSymbols}

\* what getStock answers for a symbol
PageQuote(symbol) ==
    IF symbol = AAPL
    THEN [symbol |-> AAPL, price |-> 1000, change |-> 100, changePercent |-> 1000]
    ELSE [symbol |-> symbol, price |-> 2000, change |-> -200, changePercent |-> -500]

\* via: "form" (AddStockForm) or "recs" (StockRecommendations), for addStock;
\* symbols: the symbol of addStock and removeStock, the symbols that
\* loadStoredStocks and refreshData go through
PageOp(kind, via, pc, symbols) == [kind |-> kind, via |-> via, pc |-> pc, symbols |-> symbols]
NoPageOp == PageOp("none", "", "idle", <<>>)

\* stocks.reduce((sum, stock) => sum + f(stock), 0)
SumOf(list, f(_)) == Sum([i \in DOMAIN list |-> f(list[i])])

PriceTimes100(stock) == stock.price * 100
ChangeTimes100(stock) == stock.change * 100
ChangePercentOf(stock) == stock.changePercent

\* mutant: the percent is the sum, not the mean
portfolioDataSum(list) ==
    [totalValue |-> SumOf(list, PriceTimes100),
     totalChange |-> SumOf(list, ChangeTimes100),
     totalChangePercent |-> SumOf(list, ChangePercentOf),
     stockCount |-> Len(list)]

\* const portfolioData = {...}, computed from stocks at every render; the
\* quotes above keep the division exact for lists of up to six stocks
portfolioData(list) ==
    [totalValue |-> SumOf(list, PriceTimes100),
     totalChange |-> SumOf(list, ChangeTimes100),
     totalChangePercent |-> IF Len(list) > 0
                            THEN SumOf(list, ChangePercentOf) \div Len(list)
                            ELSE 0,
     stockCount |-> Len(list)]

DisplayedSymbols == {pageStocks[i].symbol : i \in DOMAIN pageStocks}

InFlightOps == {slot \in DOMAIN pageOps : pageOps[slot].kind # "none"}

FreeSlots == DOMAIN pageOps \ InFlightOps

\* the slot a started handler takes
FreeSlot == CHOOSE slot \in FreeSlots : \A other \in FreeSlots : slot <= other

CanStart == pageStarts < MaxStarts /\ FreeSlots # {}

\* finally { setLoading(false) }, and the handler is over
Finally(slot) ==
    /\ loading' = FALSE
    /\ pageOps' = [pageOps EXCEPT ![slot] = NoPageOp]

\* addStock up to its first await.  The form is disabled while its own
\* handleAddStock runs; the Add buttons of the recommendations are rendered
\* while loading is false
AddStockStart(via, symbol) ==
    /\ CanStart
    /\ via = "form" => \A slot \in InFlightOps :
                          ~(pageOps[slot].kind = "addStock" /\ pageOps[slot].via = "form")
    /\ via = "recs" => ~loading
    /\ pageStarts' = pageStarts + 1
    /\ IF \E i \in DOMAIN pageStocks : pageStocks[i].symbol = toUpperCase(symbol)
       THEN /\ loading' = FALSE
            /\ UNCHANGED pageOps
       ELSE /\ loading' = TRUE
            /\ pageOps' = [pageOps EXCEPT ![FreeSlot] = PageOp("addStock", via, "fetch", <<symbol>>)]
    /\ UNCHANGED <<watchlist, pageStocks, pageFaults>>
    /\ UNCHANGED notPage

\* getStock settles: the stock is appended and the POST is sent, or the
\* catch block runs
AddStockFetched(slot, ok) ==
    /\ pageOps[slot].kind = "addStock" /\ pageOps[slot].pc = "fetch"
    /\ IF ok
       THEN /\ pageStocks' = Append(pageStocks, PageQuote(toUpperCase(pageOps[slot].symbols[1])))
            /\ pageOps' = [pageOps EXCEPT ![slot].pc = "store"]
            /\ UNCHANGED <<loading, pageFaults>>
       ELSE /\ Finally(slot)
            /\ pageFaults' = pageFaults \cup {"quote"}
            /\ UNCHANGED pageStocks
    /\ UNCHANGED <<watchlist, pageStarts>>
    /\ UNCHANGED notPage

\* addStockToStorage settles
AddStockStored(slot, ok) ==
    /\ pageOps[slot].kind = "addStock" /\ pageOps[slot].pc = "store"
    /\ watchlist' = IF ok THEN watchlist \cup {toUpperCase(pageOps[slot].symbols[1])} ELSE watchlist
    /\ pageFaults' = IF ok THEN pageFaults ELSE pageFaults \cup {"store"}
    /\ Finally(slot)
    /\ UNCHANGED <<pageStocks, pageStarts>>
    /\ UNCHANGED notPage

\* removeStock of a displayed card, up to its await
RemoveStockStart(symbol) ==
    /\ CanStart
    /\ symbol \in DisplayedSymbols
    /\ pageStarts' = pageStarts + 1
    /\ pageStocks' = SelectSeq(pageStocks, LAMBDA stock : stock.symbol # symbol)
    /\ pageOps' = [pageOps EXCEPT ![FreeSlot] = PageOp("removeStock", "", "delete", <<symbol>>)]
    /\ UNCHANGED <<watchlist, loading, pageFaults>>
    /\ UNCHANGED notPage

\* removeStockFromStorage settles
RemoveStockSettles(slot, ok) ==
    /\ pageOps[slot].kind = "removeStock"
    /\ watchlist' = IF ok THEN watchlist \ {pageOps[slot].symbols[1]} ELSE watchlist
    /\ pageFaults' = IF ok THEN pageFaults ELSE pageFaults \cup {"delete"}
    /\ pageOps' = [pageOps EXCEPT ![slot] = NoPageOp]
    /\ UNCHANGED <<pageStocks, loading, pageStarts>>
    /\ UNCHANGED notPage

\* refreshData up to its await; the button is disabled while loading or
\* without stocks
RefreshDataCall ==
    /\ CanStart
    /\ ~loading
    /\ pageStocks # <<>>
    /\ pageStarts' = pageStarts + 1
    /\ loading' = TRUE
    /\ pageOps' = [pageOps EXCEPT ![FreeSlot] =
                      PageOp("refreshData", "", "quotes",
                             [i \in DOMAIN pageStocks |-> pageStocks[i].symbol])]
    /\ UNCHANGED <<watchlist, pageStocks, pageFaults>>
    /\ UNCHANGED notPage

\* Promise.all over getStock settles: setStocks(updatedStocks) or the catch
RefreshDataSettles(slot, ok) ==
    /\ pageOps[slot].kind = "refreshData"
    /\ pageStocks' = IF ok
                     THEN [i \in DOMAIN pageOps[slot].symbols |-> PageQuote(pageOps[slot].symbols[i])]
                     ELSE pageStocks
    /\ pageFaults' = IF ok THEN pageFaults ELSE pageFaults \cup {"quote"}
    /\ Finally(slot)
    /\ UNCHANGED <<watchlist, pageStarts>>
    /\ UNCHANGED notPage

\* loadRecommendations up to its await: the button is always enabled
LoadRecommendationsCall ==
    /\ CanStart
    /\ pageStarts' = pageStarts + 1
    /\ loading' = TRUE
    /\ pageOps' = [pageOps EXCEPT ![FreeSlot] = PageOp("loadRecommendations", "", "recs", <<>>)]
    /\ UNCHANGED <<watchlist, pageStocks, pageFaults>>
    /\ UNCHANGED notPage

\* getRecommendations settles
LoadRecommendationsSettles(slot) ==
    /\ pageOps[slot].kind = "loadRecommendations"
    /\ Finally(slot)
    /\ UNCHANGED <<watchlist, pageStocks, pageStarts, pageFaults>>
    /\ UNCHANGED notPage

\* getStoredStocks settles: the symbols of the store, or [] on any failure
LoadStoredListed(slot, ok) ==
    /\ pageOps[slot].kind = "loadStoredStocks" /\ pageOps[slot].pc = "list"
    /\ LET storedSymbols == IF ok
                            THEN SelectSeq(PageSymbols, LAMBDA symbol : symbol \in watchlist)
                            ELSE <<>>
       IN IF Len(storedSymbols) > 0
          THEN /\ loading' = TRUE
               /\ pageOps' = [pageOps EXCEPT ![slot].pc = "quotes", ![slot].symbols = storedSymbols]
          ELSE Finally(slot)
    /\ pageFaults' = IF ok THEN pageFaults ELSE pageFaults \cup {"list"}
    /\ UNCHANGED <<watchlist, pageStocks, pageStarts>>
    /\ UNCHANGED notPage

\* the loop over the stored symbols is over: getStock succeeded for the
\* symbols at the positions fetched, and setStocks(fetchedStocks)
LoadStoredFetched(slot, fetched) ==
    /\ pageOps[slot].kind = "loadStoredStocks" /\ pageOps[slot].pc = "quotes"
    /\ fetched \subseteq DOMAIN pageOps[slot].symbols
    /\ LET symbols == pageOps[slot].symbols
           kept == SelectSeq([i \in DOMAIN symbols |-> i], LAMBDA i : i \in fetched)
       IN pageStocks' = [k \in DOMAIN kept |-> PageQuote(symbols[kept[k]])]
    /\ pageFaults' = IF fetched = DOMAIN pageOps[slot].symbols
                     THEN pageFaults ELSE pageFaults \cup {"quote"}
    /\ Finally(slot)
    /\ UNCHANGED <<watchlist, pageStarts>>
    /\ UNCHANGED notPage

-----------------------------------------------------------------------------
(***************************************************************************)
(* The debug log of DebugPanel: the module-level store logs, its listeners *)
(* and the copy each mounted panel holds.  An entry is its id, the number  *)
(* of the addLog call that made it; level, message, details and component  *)
(* play no part in the store.                                              *)
(***************************************************************************)

\* .slice(0, 100)
LOG_CAP == 100

\* the calls of addLog in a run
MaxLogs == 102

\* the DebugPanel instances that can be mounted
Panels == {1, 2}

LogEntry(id) == [id |-> id]

\* mutant: nothing is dropped
KeepLogsAll(list) == list

\* [newLog, ...logs].slice(0, 100)
KeepLogs(list) == slice(list, 0, LOG_CAP)

IsListening(panel) == \E i \in DOMAIN logListeners : logListeners[i] = panel

\* logListeners.forEach(listener => listener(logs)): setCurrentLogs(newLogs)
Notify(newLogs) ==
    currentLogs' = [panel \in Panels |-> IF IsListening(panel) THEN newLogs ELSE currentLogs[panel]]

addLog ==
    /\ logCount < MaxLogs
    /\ logCount' = logCount + 1
    /\ LET newLog == LogEntry(logCount + 1)
           newLogs == KeepLogs(<<newLog>> \o logs)
       IN /\ logs' = newLogs
          /\ Notify(newLogs)
    /\ UNCHANGED logListeners
    /\ UNCHANGED notLog

clearLogs ==
    /\ logs' = <<>>
    /\ Notify(<<>>)
    /\ UNCHANGED <<logListeners, logCount>>
    /\ UNCHANGED notLog

\* a DebugPanel mounts: useState(logs), and its effect registers the listener
PanelMounts(panel) ==
    /\ ~IsListening(panel)
    /\ logListeners' = Append(logListeners, panel)
    /\ currentLogs' = [currentLogs EXCEPT ![panel] = logs]
    /\ UNCHANGED <<logs, logCount>>
    /\ UNCHANGED notLog

\* the cleanup of the effect: logListeners.splice(index, 1)
PanelUnmounts(panel) ==
    /\ IsListening(panel)
    /\ logListeners' = SelectSeq(logListeners, LAMBDA listener : listener # panel)
    /\ currentLogs' = [currentLogs EXCEPT ![panel] = <<>>]
    /\ UNCHANGED <<logs, logCount>>
    /\ UNCHANGED notLog

-----------------------------------------------------------------------------
(***************************************************************************)
(* Specifications: one per component.                                      *)
(***************************************************************************)

\* the store of a specification that does not use it
StoreIdle ==
    /\ storage = "mem"
    /\ stocks = <<>>
    /\ currentStockId = 1
    /\ hpc = [h \in Handlers |-> "idle"]
    /\ hreq = [h \in Handlers |-> NoRequest]
    /\ hresp = NoResponse
    /\ localStocks = <<>>

\* the rate cache of a specification that does not use it
RateIdle ==
    /\ cachedExchangeRate = <<>>
    /\ now = 0
    /\ ticks = 0
    /\ cpc = [c \in Callers |-> "idle"]
    /\ cret = [c \in Callers |-> NotCalled]
    /\ fetchCount = 0

\* the classifier of a specification that does not use it
ErrIdle ==
    /\ errIn = [hasMessage |-> FALSE, message |-> <<>>, data |-> [kind |-> "undefined", keys |-> 0]]
    /\ errCtx = ""
    /\ errOut = NoStockError

\* the fetch operations of a specification that does not use them
FetchIdle ==
    /\ fop = NoOperation
    /\ fsyms = <<>>
    /\ fidx = 0
    /\ fpc = "idle"
    /\ ftask = <<>>
    /\ fresults = <<>>
    /\ fend = "idle"
    /\ flog = <<>>

\* the page of a specification that does not use it
PageIdle ==
    /\ watchlist = {}
    /\ pageStocks = <<>>
    /\ loading = FALSE
    /\ pageOps = [slot \in 1..MaxOps |-> NoPageOp]
    /\ pageStarts = 0
    /\ pageFaults = {}

\* the debug log of a specification that does not use it
LogIdle ==
    /\ logs = <<>>
    /\ logListeners = <<>>
    /\ currentLogs = [panel \in Panels |-> <<>>]
    /\ logCount = 0

\* the single calls of a specification that does not use them
CallIdle ==
    /\ call = NoCall
    /\ ret = NotSettled

InitStore ==
    /\ storage \in {"mem", "db", "local"}
    /\ stocks = <<>>
    /\ currentStockId = 1
    /\ hpc = [h \in Handlers |-> "idle"]
    /\ hreq = [h \in Handlers |-> NoRequest]
    /\ hresp = NoResponse
    /\ localStocks = <<>>
    /\ RateIdle
    /\ ErrIdle
    /\ FetchIdle
    /\ CallIdle
    /\ PageIdle
    /\ LogIdle

HandlerStep(h) ==
    \/ \E symbol \in SymbolInputs, name \in NameInputs : PostStocksCheck(h, symbol, name)
    \/ PostStocksAdd(h)
    \/ PostStocksError(h)
    \/ \E symbol \in SymbolInputs : DeleteStock(h, symbol)
    \/ \E symbol \in SymbolInputs : DeleteStockError(h, symbol)
    \/ GetStocks(h)

LocalStorageStep ==
    \/ \E symbol \in SymbolInputs : addStockToStorage(symbol)
    \/ \E symbol \in SymbolInputs : removeStockFromStorage(symbol)

\* requests arrive at any time: handlers interleave at their awaits
NextStore ==
    \/ \E h \in Handlers : HandlerStep(h)
    \/ LocalStorageStep

SpecStore == InitStore /\ [][NextStore]_vars

\* one request at a time: a handler runs only while all the others are idle
NextStoreSeq ==
    \/ \E h \in Handlers : (\A g \in Handlers \ {h} : hpc[g] = "idle") /\ HandlerStep(h)
    \/ LocalStorageStep

SpecStoreSeq == InitStore /\ [][NextStoreSeq]_vars

InitRate == RateIdle /\ StoreIdle /\ ErrIdle /\ FetchIdle /\ CallIdle /\ PageIdle /\ LogIdle

NextRate ==
    \/ \E c \in Callers : RateCall(c)
    \/ \E c \in Callers, outcome \in {"reject", "non2xx", "ok"} : RateFetchSettles(c, outcome)
    \/ \E c \in Callers, body \in ProviderRates \cup {"badjson", "norates"} : RateBodySettles(c, body)
    \/ \E d \in TimeSteps : ClockAdvance(d)

SpecRate == InitRate /\ [][NextRate]_vars

InitErr ==
    /\ errIn \in ErrorInputs
    /\ errCtx \in ContextInputs
    /\ errOut = NoStockError
    /\ StoreIdle
    /\ RateIdle
    /\ FetchIdle
    /\ CallIdle
    /\ PageIdle
    /\ LogIdle

NextErr == Classify

SpecErr == InitErr /\ [][NextErr]_vars

InitFetch == FetchIdle /\ StoreIdle /\ RateIdle /\ ErrIdle /\ CallIdle /\ PageIdle /\ LogIdle

NextFetch ==
    \/ /\ fend = "idle"
       /\ \E variant \in {"finnhub", "alphavantage", "mock"}, symbols \in Batches :
             GetMultipleStocksStart(variant, symbols)
    \/ /\ fend = "idle"
       /\ \E symbols \in Batches : RefreshDataStart(symbols)
    \/ /\ fend = "idle"
       /\ \E variant \in {"finnhub", "alphavantage"}, newsKey \in BOOLEAN, maxPrice \in MaxPrices :
             GetRecommendationsStart(variant, newsKey, maxPrice)
    \/ \E i \in 1..MaxBatch, outcome \in QuoteOutcomes("finnhub") \cup QuoteOutcomes("alphavantage") :
          QuoteSettles(i, outcome)
    \/ \E i \in 1..MaxBatch, outcome \in {"reject", "non2xx", "noname", "name"} :
          ProfileSettles(i, outcome)
    \/ \E i \in 1..MaxBatch, variation \in Variations : MockTimerFires(i, variation)
    \/ \E i \in 1..MaxBatch, outcome \in NewsOutcomes, score \in ArticleScores \cup {2} :
          NewsSettles(i, outcome, score)
    \/ DelayElapses

SpecFetch == InitFetch /\ [][NextFetch]_vars

InitGetStock == CallIdle /\ StoreIdle /\ RateIdle /\ ErrIdle /\ FetchIdle /\ PageIdle /\ LogIdle

NextGetStock ==
    \/ \E variant \in {"finnhub", "alphavantage"}, symbol \in CallSymbols :
          GetStockCall(variant, symbol)
    \/ \E message \in FetchRejections : GetStockFetchThrows(message)
    \/ \E statusText \in StatusTexts : GetStockNotOk(statusText)
    \/ \E error \in ProviderErrors : GetStockApiError(error)
    \/ GetStockZeroQuote
    \/ GetStockQuote
    \/ \E outcome \in {"reject", "non2xx", "noname", "name"} : GetStockProfile(outcome)
    \/ CatchGetStock

SpecGetStock == InitGetStock /\ [][NextGetStock]_vars

InitNews == CallIdle /\ StoreIdle /\ RateIdle /\ ErrIdle /\ FetchIdle /\ PageIdle /\ LogIdle

NextNews ==
    \/ \E variant \in {"finnhub", "alphavantage"}, newsKey \in BOOLEAN, symbol \in SymbolPool :
          GetStockNewsCall(variant, newsKey, symbol)
    \/ NewsFetchThrows
    \/ \E status \in {429, 500} : NewsNotOk(status)
    \/ NewsNoList
    \/ \E articles \in ArticleLists : NewsArticles(articles)

SpecNews == InitNews /\ [][NextNews]_vars

InitForecast == CallIdle /\ StoreIdle /\ RateIdle /\ ErrIdle /\ FetchIdle /\ PageIdle /\ LogIdle

NextForecast ==
    \/ \E variant \in {"finnhub", "alphavantage"}, symbol \in SymbolPool : GetForecastCall(variant, symbol)
    \/ ForecastFetchThrows
    \/ \E cause \in {"non2xx", "nodata"} : ForecastNoHistory(cause)
    \/ ForecastHistory

SpecForecast == InitForecast /\ [][NextForecast]_vars

InitSentiment == CallIdle /\ StoreIdle /\ RateIdle /\ ErrIdle /\ FetchIdle /\ PageIdle /\ LogIdle

NextSentiment ==
    \/ /\ call = NoCall
       /\ \E text \in Texts : AnalyzeSentimentKeywords(text)
    \/ \E hfKey \in BOOLEAN, text \in Words : AnalyzeSentimentCall(hfKey, text)
    \/ SentimentThrows
    \/ SentimentNotOk
    \/ /\ call.pc = "sentiment"
       /\ \E scores \in ScoreLists : SentimentScores(scores)
    \/ /\ call = NoCall
       /\ \E news \in NewsLists : AnalyzeStockCall(news)

SpecSentiment == InitSentiment /\ [][NextSentiment]_vars

InitSearch == CallIdle /\ StoreIdle /\ RateIdle /\ ErrIdle /\ FetchIdle /\ PageIdle /\ LogIdle

NextSearch ==
    \E variant \in {"finnhub", "alphavantage"}, query \in Queries : SearchStocksCall(variant, query)

SpecSearch == InitSearch /\ [][NextSearch]_vars

\* the page has mounted: both effects have run, loadStoredStocks waits for
\* the list of the store and loadRecommendations, which has set loading,
\* for the recommendations
InitPage ==
    /\ watchlist \in SUBSET PageSymbolSet
    /\ pageStocks = <<>>
    /\ loading = TRUE
    /\ pageOps = [slot \in 1..MaxOps |->
                    IF slot = 1 THEN PageOp("loadStoredStocks", "", "list", <<>>)
                    ELSE IF slot = 2 THEN PageOp("loadRecommendations", "", "recs", <<>>)
                    ELSE NoPageOp]
    /\ pageStarts = 0
    /\ pageFaults = {}
    /\ StoreIdle /\ RateIdle /\ ErrIdle /\ FetchIdle /\ CallIdle /\ LogIdle

NextPage ==
    \/ \E via \in {"form", "recs"}, symbol \in PageSymbolSet : AddStockStart(via, symbol)
    \/ \E slot \in 1..MaxOps, ok \in BOOLEAN : AddStockFetched(slot, ok)
    \/ \E slot \in 1..MaxOps, ok \in BOOLEAN : AddStockStored(slot, ok)
    \/ \E symbol \in PageSymbolSet : RemoveStockStart(symbol)
    \/ \E slot \in 1..MaxOps, ok \in BOOLEAN : RemoveStockSettles(slot, ok)
    \/ RefreshDataCall
    \/ \E slot \in 1..MaxOps, ok \in BOOLEAN : RefreshDataSettles(slot, ok)
    \/ LoadRecommendationsCall
    \/ \E slot \in 1..MaxOps : LoadRecommendationsSettles(slot)
    \/ \E slot \in 1..MaxOps, ok \in BOOLEAN : LoadStoredListed(slot, ok)
    \/ \E slot \in 1..MaxOps, fetched \in SUBSET DOMAIN PageSymbols : LoadStoredFetched(slot, fetched)

SpecPage == InitPage /\ [][NextPage]_vars

InitLog == LogIdle /\ StoreIdle /\ RateIdle /\ ErrIdle /\ FetchIdle /\ CallIdle /\ PageIdle

NextLog ==
    \/ addLog
    \/ clearLogs
    \/ \E panel \in Panels : PanelMounts(panel)
    \/ \E panel \in Panels : PanelUnmounts(panel)

SpecLog == InitLog /\ [][NextLog]_vars

Init == InitStore
Next == NextStore
Spec == Init /\ [][Next]_vars

-----------------------------------------------------------------------------
(***************************************************************************)
(* The claims.                                                             *)
(***************************************************************************)

\* the active entries of the store under symbol, letter case ignored
ActiveEntries(rows, symbol) ==
    { i \in DOMAIN rows : rows[i].isActive /\ toUpperCase(rows[i].symbol) = toUpperCase(symbol) }

\* list(): the symbols GET /api/stocks sends, as a bag position set
ListedAt(rows, symbol) ==
    LET listed == SymbolsOf(getStocks(rows))
    IN  { i \in DOMAIN listed : toUpperCase(listed[i]) = toUpperCase(symbol) }

RealSymbols == SymbolInputs \ {<<>>}
RealNames == NameInputs \ {""}

\* C1: after any sequence and interleaving of add and remove requests the
\* store holds at most one active entry per symbol, letter case ignored.
C1_UniqueActiveSymbol ==
    \A symbol \in RealSymbols : Cardinality(ActiveEntries(stocks, symbol)) <= 1

\* the same for the servers that run on MemStorage, where the Map key decides
C1_UniqueActiveSymbolMem ==
    storage = "mem" => C1_UniqueActiveSymbol

\* C2: an add of a symbol that is active (in any letter case) is answered 409
\* and leaves the store unchanged; after remove(s) the list does not hold s;
\* an add that goes through leaves s in the list exactly once.
C2_AddRemoveAdd ==
    [][\A h \in Handlers, symbol \in RealSymbols :
         /\ ( /\ \E name \in RealNames : PostStocksCheck(h, symbol, name)
              /\ ActiveEntries(stocks, symbol) # {} )
            => (hresp'.status = 409 /\ hpc'[h] = "idle" /\ stocks' = stocks)
         /\ DeleteStock(h, symbol) => ListedAt(stocks', symbol) = {}
         /\ (PostStocksAdd(h) /\ toUpperCase(hreq[h].symbol) = toUpperCase(symbol))
            => (hresp'.status = 200 /\ Cardinality(ListedAt(stocks', symbol)) = 1)
      ]_vars

\* the same for the servers that run on MemStorage
C2_AddRemoveAddMem ==
    [][storage = "mem" =>
       \A h \in Handlers, symbol \in RealSymbols :
         /\ ( /\ \E name \in RealNames : PostStocksCheck(h, symbol, name)
              /\ ActiveEntries(stocks, symbol) # {} )
            => (hresp'.status = 409 /\ hpc'[h] = "idle" /\ stocks' = stocks)
         /\ DeleteStock(h, symbol) => ListedAt(stocks', symbol) = {}
         /\ (PostStocksAdd(h) /\ toUpperCase(hreq[h].symbol) = toUpperCase(symbol))
            => (hresp'.status = 200 /\ Cardinality(ListedAt(stocks', symbol)) = 1)
      ]_vars

\* the age of the cache entry, when there is one
CacheAge == now - cachedExchangeRate[1].timestamp

\* C3: once a rate is stored, a call started less than 3,600,000 ms after the
\* stored timestamp returns the stored rate and sends no provider request; a
\* call started at or after that age sends a new provider request.
C3_CacheWithinTtl ==
    [][\A c \in Callers :
         (RateCall(c) /\ cachedExchangeRate # <<>>) =>
            IF CacheAge < 3600000
            THEN /\ cret'[c].kind = "return"
                 /\ cret'[c].value = cachedExchangeRate[1].rate
                 /\ fetchCount' = fetchCount
                 /\ cpc'[c] = "idle"
            ELSE /\ fetchCount' = fetchCount + 1
                 /\ cpc'[c] = "fetching"
      ]_vars

\* C3 witness: one caller was served from the cache at age 3,599,999 and the
\* other started a call, now pending at the provider, at age 3,600,000
C3_Witness ==
    /\ cachedExchangeRate # <<>>
    /\ \E c, d \in Callers :
         /\ cret[c].kind = "return" /\ cret[c].via = "cache"
         /\ cret[c].value = cachedExchangeRate[1].rate
         /\ cret[c].at = cachedExchangeRate[1].timestamp + 3599999
         /\ cret[d].kind = "pending" /\ cpc[d] = "fetching"
         /\ cret[d].started = cachedExchangeRate[1].timestamp + 3600000

\* C4: when the provider request fails (the fetch rejects or the response is
\* not 2xx) the call returns 0.85, does not throw, and the cache entry is what
\* it was before.
C4_FailureKeepsCache ==
    [][\A c \in Callers, outcome \in {"reject", "non2xx"} :
         RateFetchSettles(c, outcome) =>
            /\ cret'[c].kind = "return"
            /\ cret'[c].value = "0.85"
            /\ cachedExchangeRate' = cachedExchangeRate
      ]_vars

\* C4 witness: a call that started on an expired entry ended in the fallback
\* and the entry, written before that call started, is still there
C4_Witness ==
    \E c \in Callers :
      /\ cret[c].kind = "return" /\ cret[c].via = "fallback" /\ cret[c].value = "0.85"
      /\ cachedExchangeRate # <<>>
      /\ cachedExchangeRate[1].timestamp < cret[c].started

\* C5: a call that starts on an empty or expired cache while another call is
\* in flight sends its own provider request, and every response that carries
\* a rate overwrites the cache, so the entry is that of the response processed
\* last.
C5_OverlapBothFetchLastWins ==
    [][\A c \in Callers :
         /\ ( /\ RateCall(c)
              /\ \E d \in Callers \ {c} : cpc[d] \in {"fetching", "parsing"}
              /\ (cachedExchangeRate = <<>> \/ CacheAge >= 3600000) )
            => (fetchCount' = fetchCount + 1 /\ cpc'[c] = "fetching")
         /\ \A body \in ProviderRates :
              RateBodySettles(c, body) =>
                 cachedExchangeRate' = <<[rate |-> body, timestamp |-> now]>>
      ]_vars

\* C5 witness: two calls overlapped, each got its own response with a
\* different rate, and the cache holds the entry of the later one
C5_Witness ==
    \E c, d \in Callers :
      /\ c # d
      /\ cret[c].kind = "return" /\ cret[c].via = "provider"
      /\ cret[d].kind = "return" /\ cret[d].via = "provider"
      /\ cret[c].value # cret[d].value
      /\ cret[d].started < cret[c].at /\ cret[c].started < cret[d].at
      /\ cret[c].at < cret[d].at
      /\ cachedExchangeRate = <<[rate |-> cret[d].value, timestamp |-> cret[d].at]>>

\* the classified failure carries this text in its message
Says(pat) == errIn.hasMessage /\ StrIncludes(errIn.message, pat)

Rule1 == Says(<<"Failed", "to", "fetch">>) \/ Says(<<"NetworkError">>)
Rule2 == Says(<<"API", "call", "frequency">>) \/ Says(<<"rate", "limit">>)
Rule3 == Says(<<"not", "found">>) \/ Says(<<"Invalid", "API", "call">>)
\* an empty mapping is attached to the failure as its data payload
EmptyPayload == errIn.data.kind = "object" /\ errIn.data.keys = 0
Rule4 == Says(<<"no", "data">>) \/ EmptyPayload

\* C6: the rules of createStockError apply in fixed precedence, first match
\* wins: network, then rate limit, then unknown symbol, then no data.
C6_Precedence ==
    errOut # NoStockError =>
      /\ Rule1 => (errOut.type = "NETWORK" /\ errOut.canRetry)
      /\ (~Rule1 /\ Rule2) => (errOut.type = "API_LIMIT" /\ errOut.canRetry)
      /\ (~Rule1 /\ ~Rule2 /\ Rule3) => (errOut.type = "INVALID_SYMBOL" /\ ~errOut.canRetry)
      /\ (~Rule1 /\ ~Rule2 /\ ~Rule3 /\ Rule4) => (errOut.type = "NO_DATA" /\ ~errOut.canRetry)

\* C6 witness: 'rate limit exceeded, symbol not found' was classified API_LIMIT
C6_Witness ==
    /\ errIn.hasMessage
    /\ errIn.message = <<"rate", "limit", "exceeded,", "symbol", "not", "found">>
    /\ errOut.type = "API_LIMIT"

\* C7: a failure that matches none of rules 1-4 (none of the texts in its
\* message, no empty data payload attached) is UNKNOWN, retryable, with the
\* context in its message; so is an Error that has a message and no data field.
C7_UnknownIsDefault ==
    (errOut # NoStockError /\ ~Rule1 /\ ~Rule2 /\ ~Rule3 /\ ~Rule4) =>
      /\ errOut.type = "UNKNOWN"
      /\ errOut.canRetry
      /\ errOut.message = <<"Unexpected error in ", errCtx>>

(***************************************************************************)
(* The multi-symbol fetch operations (SpecFetch).                          *)
(***************************************************************************)

\* the quotes of the symbols whose getStock resolved, in input order
RECURSIVE QuotesOf(_)
QuotesOf(tasks) ==
    IF tasks = <<>> THEN <<>>
    ELSE LET last == tasks[Len(tasks)]
             rest == QuotesOf(SubSeq(tasks, 1, Len(tasks) - 1))
         IN IF last.quote = "ok" THEN Append(rest, last.data[1]) ELSE rest

QuoteRequests(i) == {k \in DOMAIN flog : flog[k] = RequestEvent("quote", i)}

BatchContract ==
    /\ fend # "rejected"
    /\ \A i \in DOMAIN ftask : Cardinality(QuoteRequests(i)) <= 1
    /\ fend = "resolved" => fresults = QuotesOf(ftask)

\* C8: getMultipleStocks never rejects: a symbol whose quote fetch fails is
\* skipped, not retried and does not abort the batch, and the result is
\* exactly the quotes of the symbols whose fetch succeeded, in input order.
\* Violated: the mock variant awaits Promise.all and rejects with the first
\* failure.
C8_BatchNeverRejects ==
    fop.name = "getMultipleStocks" => BatchContract

\* what does hold: the Finnhub and Alpha Vantage variants keep the contract
C8_BatchNeverRejectsProduction ==
    fop.name = "getMultipleStocks" /\ fop.variant # "mock" => BatchContract

\* C9: multi-symbol operations are sequential: within one run of
\* getMultipleStocks, of the getRecommendations candidate loop, or of a
\* portfolio refresh, no provider request is started while another request
\* of the same run is still in flight, and for a recommendation candidate
\* the quote is fetched before the news.
\* Violated: refreshData sends every quote request at once, and
\* getRecommendations sends the news request while the quote request is out.
C9_OneRequestAtATime ==
    fop.name \in {"getMultipleStocks", "getRecommendations", "refreshData"} =>
        /\ Cardinality(InFlight) <= 1
        /\ \A i \in DOMAIN ftask : ftask[i].news = "request" => ftask[i].quote = "ok"

\* what does hold: getMultipleStocks alone has one request in flight at most
C9_BatchOneRequestAtATime ==
    fop.name = "getMultipleStocks" => Cardinality(InFlight) <= 1

IsQuoteRequest(e) == e.ev = "request" /\ e.kind = "quote"

\* C10: in getMultipleStocks the fixed inter-call delay elapses between every
\* two consecutive quote requests of a batch, whether the earlier of the two
\* requests succeeded or failed.
\* Violated: the setTimeout is inside the try, after results.push, so a
\* failed request is followed by the next one at once.
C10_DelayBetweenQuoteRequests ==
    fop.name = "getMultipleStocks" =>
        \A a, b \in DOMAIN flog :
            a < b /\ IsQuoteRequest(flog[a]) /\ IsQuoteRequest(flog[b]) =>
                \E d \in (a + 1)..(b - 1) : flog[d] = DelayEvent(BatchDelay(fop.variant))

\* what does hold: the delay elapses after every request that succeeded
C10_DelayAfterSuccess ==
    fop.name = "getMultipleStocks" =>
        \A a, b \in DOMAIN flog :
            /\ a < b /\ IsQuoteRequest(flog[a]) /\ IsQuoteRequest(flog[b])
            /\ ftask[flog[a].idx].quote = "ok"
            => \E d \in (a + 1)..(b - 1) : flog[d] = DelayEvent(BatchDelay(fop.variant))

(***************************************************************************)
(* One getStock call and the catch block of the page (SpecGetStock).       *)
(***************************************************************************)

NewsTrouble == {"nokey", "reject", "429", "non2xx", "zero", "missing"}

PlaceholderSources == {"Market Watch", "Financial Times", "Bloomberg", "Mock Data", "Fallback Data"}

NewsContract ==
    ret.kind # "none" =>
        /\ ret.kind = "resolved"
        /\ ret.cause \in NewsTrouble =>
              /\ ret.value # <<>>
              /\ \A i \in DOMAIN ret.value : ret.value[i].source \in PlaceholderSources

\* C12: getStockNews never raises and never returns an empty list because of
\* provider trouble: when the news key is absent, the provider answers 429
\* or another non-2xx status, the provider returns zero results, or the
\* request throws, it returns locally generated placeholder news items.
\* Violated: the Alpha Vantage variant maps an empty list of articles to an
\* empty list of items.
C12_NewsFallsBack ==
    call.fn = "getStockNews" => NewsContract

\* what does hold: the Finnhub variant keeps the contract
C12_NewsFallsBackFinnhub ==
    call.fn = "getStockNews" /\ call.variant = "finnhub" => NewsContract

\* what does hold: getStockNews never rejects in either variant
C12_NewsNeverRejects ==
    call.fn = "getStockNews" => ret.kind # "rejected"

(***************************************************************************)
(* One getForecast call (SpecForecast).                                    *)
(***************************************************************************)

Periods(points) == [i \in DOMAIN points |-> points[i].period]

\* C13: getForecast always resolves and never rejects, and its result is
\* exactly three points whose periods are 1d, 1w and 1m in that order,
\* whether the price-history request succeeds with data, succeeds without
\* data, returns non-2xx, or throws.
C13_ThreePoints ==
    call.fn = "getForecast" /\ call.pc = "done" =>
        /\ ret.kind = "resolved"
        /\ ret.cause \in {"history", "nodata", "non2xx", "reject"}
        /\ Periods(ret.value) = <<"1d", "1w", "1m">>

\* the request threw and the catch block returned its three points
C13_Witness ==
    /\ call.fn = "getForecast" /\ call.pc = "done"
    /\ ret.cause = "reject"
    /\ Len(ret.value) = 3

\* the confidences of a forecast made from base confidence 60
BaseSixty(points) ==
    /\ points[1].confidence >= 60000 /\ points[1].confidence < 75000
    /\ points[2].confidence >= 50000 /\ points[2].confidence < 65000
    /\ points[3].confidence >= 40000 /\ points[3].confidence < 60000

FromDefaults ==
    /\ ret.estimate = <<DefaultEstimate>>
    /\ \A i \in DOMAIN ret.value : ret.value[i].trend = "neutral"
    /\ BaseSixty(ret.value)

\* C14: when the price-history fetch of getForecast fails, the forecast is
\* computed from the defaults trend = neutral and volatility = 0.05 (hence
\* base confidence 60), and all three points carry that same trend.
\* Violated: a fetch that throws lands in the catch block, which draws a
\* trend up or down per point and confidences from 70, 60 and 50.
C14_FailureUsesDefaults ==
    call.fn = "getForecast" /\ ret.cause \in {"reject", "non2xx"} => FromDefaults

\* what does hold: an answer outside 2xx or without closes uses the defaults
C14_NoHistoryUsesDefaults ==
    call.fn = "getForecast" /\ ret.cause \in {"non2xx", "nodata"} => FromDefaults

\* the trend by the true means of the slices the code takes: mean(recent)
\* against mean(older) times 1.02 and 0.98, cross-multiplied
TrueTrend(recent, older) ==
    IF Sum(recent) * Len(older) * 100 > Sum(older) * Len(recent) * 102 THEN "up"
    ELSE IF Sum(recent) * Len(older) * 100 < Sum(older) * Len(recent) * 98 THEN "down"
    ELSE "neutral"

TrendIsTrue ==
    LET prices == ForecastPrices(call.variant, ret.answer) IN
    ret.estimate[1].trend = TrueTrend(RecentSlice(call.variant, prices),
                                      OlderSlice(call.variant, prices))

\* C15: the forecast trend is 'up' exactly when the mean of the recent half
\* of the price window exceeds 1.02 times the mean of the prior half, 'down'
\* exactly when it is below 0.98 times that mean, and 'neutral' otherwise,
\* the two means being the true means of the two halves for every window
\* the provider returns, including a window of fewer than 10 closes.
\* Violated: both sums are divided by 5 whatever the length of the slice.
\* (Windows of six closes and more, so that both halves have a mean.)
C15_TrendByTrueMeans ==
    call.fn = "getForecast" /\ ret.cause = "history" /\ Len(ret.answer) >= 6 => TrendIsTrue

\* what does hold: with ten closes the trend is the one of the true means
C15_TrendOfTenCloses ==
    call.fn = "getForecast" /\ ret.cause = "history" /\ Len(ret.answer) >= 10 => TrendIsTrue

\* C16: every ForecastPoint returned by getForecast has a confidence in
\* [0,100], on the normal path (base 60 or 75 with offsets 0, -10, -20 and
\* jitter) and on the fallback path alike.
C16_ConfidenceInRange ==
    call.fn = "getForecast" =>
        \A i \in DOMAIN ret.value :
            ret.value[i].confidence >= 0 /\ ret.value[i].confidence <= 100000

\* a forecast from closes with a trend, its one-day confidence at the top
\* of the jitter
C16_Witness ==
    /\ call.fn = "getForecast" /\ ret.cause = "history"
    /\ ret.estimate[1].trend = "up"
    /\ ret.value[1].confidence = 75000 + 999 * 15


(***************************************************************************)
(* getRecommendations (SpecFetch).                                         *)
(***************************************************************************)

RecSymbols == [k \in DOMAIN fresults |-> fresults[k].symbol]

\* the position of a recommendation's symbol in the candidate list
CandidateOf(k) == CHOOSE i \in DOMAIN fsyms : fsyms[i] = RecSymbols[k]

Recommended(i) == \E k \in DOMAIN fresults : RecSymbols[k] = fsyms[i]

Fetched(c) ==
    \E i \in DOMAIN fsyms : fsyms[i] = trendingSymbols[c] /\ QuoteRequests(i) # {}

\* C18: getRecommendations operates over the fixed list of five candidate
\* symbols (NVDA, TSLA, AAPL, MSFT, GOOGL): in one run every one of the five
\* candidates is fetched.
\* Violated: the loop runs over trendingSymbols.slice(0, 3), so MSFT and
\* GOOGL are never fetched and never recommended.
C18_AllFiveFetched ==
    fop.name = "getRecommendations" /\ fend = "resolved" =>
        \A c \in DOMAIN trendingSymbols : Fetched(c)

\* what does hold: a finished run has fetched the first three candidates,
\* and only they can be in the result
C18_FirstThreeFetched ==
    fop.name = "getRecommendations" /\ fend = "resolved" =>
        /\ \A c \in 1..3 : Fetched(c)
        /\ \A k \in DOMAIN fresults : \E c \in 1..3 : RecSymbols[k] = trendingSymbols[c]

\* the inclusion rule of the specification for candidate i, whose quote is in
TooExpensive(i) == fop.maxPrice # 0 /\ ftask[i].data[1].price > fop.maxPrice

InclusionRule ==
    /\ \A i \in DOMAIN ftask :
          ftask[i].quote = "ok" /\ ftask[i].news = "ok" =>
              (Recommended(i) <=> ~TooExpensive(i))
    /\ fop.maxPrice # 0 =>
          \A k \in DOMAIN fresults : fresults[k].currentPrice <= fop.maxPrice

\* C19: a candidate whose quote and news were fetched successfully is
\* included in the result of getRecommendations unless a maxPrice is
\* supplied and the candidate's current price exceeds it; inclusion does not
\* depend on the news score, and with a supplied maxPrice no returned
\* recommendation has currentPrice greater than maxPrice.
\* Violated: the Alpha Vantage variant recommends a candidate only if its
\* newsScore is not negative.
C19_IncludedUnlessTooExpensive ==
    fop.name = "getRecommendations" /\ fend = "resolved" => InclusionRule

\* what does hold: the rule in the Finnhub variant, and the price ceiling in
\* both
C19_FinnhubIncludesUnlessTooExpensive ==
    fop.name = "getRecommendations" /\ fend = "resolved" =>
        /\ fop.variant = "finnhub" => InclusionRule
        /\ fop.maxPrice # 0 =>
              \A k \in DOMAIN fresults : fresults[k].currentPrice <= fop.maxPrice

\* C20: every Recommendation returned by getRecommendations has a confidence
\* of at least 50 and at most 100, where confidence = max(50, 70 + 5 x
\* newsScore + jitter) with jitter in [0,15) and newsScore = positive count
\* minus negative count over at most 5 news items.
\* Violated: nothing caps the sum, which passes 100 from a newsScore of 4 on.
C20_ConfidenceInRange ==
    fop.name = "getRecommendations" =>
        \A k \in DOMAIN fresults :
            /\ fresults[k].confidence >= 50000
            /\ fresults[k].confidence <= 100000

\* what does hold: the confidence is at least 50 in both variants (the Alpha
\* Vantage variant recommends no candidate with a negative newsScore), it is
\* below 110, and it is at most 100 for a newsScore of 3 or less
C20_ConfidenceAtLeastFifty ==
    fop.name = "getRecommendations" =>
        \A k \in DOMAIN fresults :
            /\ fresults[k].confidence >= 50000
            /\ fresults[k].confidence < 110000
            /\ fresults[k].newsScore <= 3 => fresults[k].confidence <= 100000

(***************************************************************************)
(* analyzeSentiment (SpecSentiment).                                       *)
(***************************************************************************)

KeywordCall == call.fn = "analyzeSentiment" /\ call.variant = "finnhub"

\* how often pat occurs in str
Occurrences(str, pat) ==
    Cardinality({i \in 0..(Len(str) - Len(pat)) : SubSeq(str, i + 1, i + Len(pat)) = pat})

RECURSIVE SumOccurrences(_, _, _)
SumOccurrences(keywords, k, str) ==
    IF k = 0 THEN 0
    ELSE Occurrences(str, keywords[k]) + SumOccurrences(keywords, k - 1, str)

\* the label by the counts of occurrences, letter case ignored
LabelByOccurrences(text) ==
    LET lowerText == toLowerCase(text)
        positive == SumOccurrences(positiveKeywords, Len(positiveKeywords), lowerText)
        negative == SumOccurrences(negativeKeywords, Len(negativeKeywords), lowerText)
    IN IF positive > negative THEN "positive"
       ELSE IF negative > positive THEN "negative"
       ELSE "neutral"

\* one label of the three, the same for the text in any letter case
OneLabelAnyCase ==
    /\ ret.kind = "resolved"
    /\ ret.value[1] \in Sentiments
    /\ \A other \in Texts :
          toLowerCase(other) = toLowerCase(call.symbol) => analyzeSentiment(other) = ret.value[1]

\* C21: the keyword sentiment classifier counts the occurrences of the fixed
\* positive keywords and of the fixed negative keywords in the text,
\* case-insensitively, and returns positive if the positive count is
\* greater, negative if the negative count is greater and neutral on a tie;
\* for every text it returns exactly one of the three labels and the same
\* label for the same text in any letter case.
\* Violated: the code counts the keywords that occur, each once however
\* often it occurs.
C21_LabelByOccurrences ==
    KeywordCall => /\ ret.value[1] = LabelByOccurrences(call.symbol)
                   /\ OneLabelAnyCase

\* what does hold: the label is the one of the occurrence counts when no
\* keyword occurs twice, and it is one label, the same in any letter case
C21_LabelByKeywordsPresent ==
    KeywordCall =>
        /\ OneLabelAnyCase
        /\ (\A k \in DOMAIN positiveKeywords :
               Occurrences(toLowerCase(call.symbol), positiveKeywords[k]) <= 1)
           /\ (\A k \in DOMAIN negativeKeywords :
               Occurrences(toLowerCase(call.symbol), negativeKeywords[k]) <= 1)
           => ret.value[1] = LabelByOccurrences(call.symbol)

RemoteCall == call.fn = "analyzeSentiment" /\ call.variant = "alphavantage"

MaxScoreOf(scores) ==
    CHOOSE m \in {scores[i].score : i \in DOMAIN scores} :
        \A i \in DOMAIN scores : scores[i].score <= m

\* C22: the remote sentiment strategy fails open: with no credential
\* configured, on a non-2xx response, or when the request or response
\* parsing throws, analyzeSentiment returns neutral and never raises; on
\* success it returns the class of the highest-scoring label among
\* negative, neutral and positive (neutral when no label scores above 0).
C22_RemoteFailsOpen ==
    RemoteCall =>
        /\ ret.kind # "rejected"
        /\ call.pc = "done" => ret.kind = "resolved" /\ ret.value[1] \in Sentiments
        /\ ret.cause \in {"nokey", "non2xx", "reject"} => ret.value = <<"neutral">>
        /\ ret.cause = "scores" =>
              LET scores == ret.answer IN
              IF scores = <<>> \/ MaxScoreOf(scores) = 0
              THEN ret.value = <<"neutral">>
              ELSE \E i \in DOMAIN scores :
                      /\ scores[i].score = MaxScoreOf(scores)
                      /\ ret.value = <<LabelClass(scores[i].label)>>

\* an answer whose highest score is not the last one and is positive, and a
\* call that returned its class
C22_Witness ==
    /\ RemoteCall
    /\ ret.cause = "scores"
    /\ Len(ret.answer) = 3
    /\ ret.answer[1].score = 300 /\ ret.answer[2].score = 700 /\ ret.answer[3].score = 300
    /\ ret.answer[2].label = "LABEL_2" /\ ret.answer[3].label = "LABEL_0"
    /\ ret.value = <<"positive">>

(***************************************************************************)
(* The page Index (SpecPage).                                              *)
(***************************************************************************)

\* how many displayed stocks have the symbol
Displayed(symbol) == Cardinality({i \in DOMAIN pageStocks : pageStocks[i].symbol = symbol})

\* C23: for every displayed stock list the portfolio totals are: totalValue
\* = sum of price x 100, totalChange = sum of change x 100,
\* totalChangePercent = arithmetic mean of changePercent (0 for the empty
\* list), stockCount = number of stocks; e.g. prices 10 and 20, changes 1
\* and -2, percents 10 and -5 give 3000, -100, 2.5 and 2.
C23_PortfolioTotals ==
    LET totals == portfolioData(pageStocks)
        count == Len(pageStocks)
    IN /\ \A i \in DOMAIN pageStocks : pageStocks[i] = PageQuote(pageStocks[i].symbol)
       /\ totals.stockCount = count
       /\ totals.totalValue =
             100 * (Displayed(AAPL) * PageQuote(AAPL).price + Displayed(MSFT) * PageQuote(MSFT).price)
       /\ totals.totalChange =
             100 * (Displayed(AAPL) * PageQuote(AAPL).change + Displayed(MSFT) * PageQuote(MSFT).change)
       /\ totals.totalChangePercent * count =
             Displayed(AAPL) * PageQuote(AAPL).changePercent
             + Displayed(MSFT) * PageQuote(MSFT).changePercent
       /\ count = 0 => totals.totalChangePercent = 0

\* the example: AAPL at 10.00 (+1.00, +10%) and MSFT at 20.00 (-2.00, -5%)
C23_Witness ==
    /\ Len(pageStocks) = 2
    /\ pageStocks[1].price = 1000 /\ pageStocks[2].price = 2000
    /\ pageStocks[1].change = 100 /\ pageStocks[2].change = -200
    /\ pageStocks[1].changePercent = 1000 /\ pageStocks[2].changePercent = -500
    /\ portfolioData(pageStocks) =
          [totalValue |-> 300000, totalChange |-> -10000, totalChangePercent |-> 250,
           stockCount |-> 2]

\* C24: the displayed portfolio list never contains two entries with the
\* same symbol, for any sequence and interleaving of addStock calls,
\* including a second addStock for the same symbol started before the first
\* one has completed.
\* Violated: addStock looks for the symbol in the list of the render that
\* made the handler, before its awaits, and appends without looking again.
C24_NoDuplicateSymbols ==
    \A i, j \in DOMAIN pageStocks : pageStocks[i].symbol = pageStocks[j].symbol => i = j

\* the same while the store is empty and no request has failed, where only
\* addStock calls put stocks in the list: violated too, by two addStock
\* calls for one symbol that overlap
C24_NoDuplicateSymbolsFromEmpty ==
    watchlist = {} /\ pageFaults = {} => C24_NoDuplicateSymbols

Quiet == InFlightOps = {}

\* C25: whenever no operation is in flight, the set of symbols in the
\* displayed portfolio equals the set of active symbols in the Watchlist
\* Store; this holds also after an addStock whose store write failed, after
\* a removeStock whose store delete failed, and after a refresh that
\* overlapped a removeStock.
\* Violated: addStock and removeStock change the list before the store
\* answers and do not undo the change, and refreshData puts back the list
\* it started from.
C25_DisplayMatchesStore ==
    Quiet => DisplayedSymbols = watchlist

\* the same where nothing but a store write has failed: violated
C25_AfterFailedStoreWrite ==
    Quiet /\ pageFaults = {"store"} => DisplayedSymbols = watchlist

\* the same where nothing but a store delete has failed: violated
C25_AfterFailedStoreDelete ==
    Quiet /\ pageFaults = {"delete"} => DisplayedSymbols = watchlist

\* the same where no request has failed: violated by overlapping handlers
C25_WithoutFailures ==
    Quiet /\ pageFaults = {} => DisplayedSymbols = watchlist

\* the handlers that set the loading flag
LoadingOps ==
    {slot \in InFlightOps :
        pageOps[slot].kind \in {"loadStoredStocks", "addStock", "refreshData", "loadRecommendations"}}

\* C26: the shared loading flag of the dashboard is true whenever at least
\* one of loadStoredStocks, addStock, refreshData or loadRecommendations is
\* still in flight, and becomes false only when none of them is.
\* Violated: each handler sets the flag to false in its finally block,
\* whatever else is in flight.
C26_LoadingWhileInFlight ==
    LoadingOps # {} => loading

\* what does hold is the converse: while the flag is true, one of the four
\* handlers is in flight
C26_LoadingOnlyWhileInFlight ==
    loading => LoadingOps # {}

(***************************************************************************)
(* The exchange-rate cache once more (SpecRate).                           *)
(***************************************************************************)

NumericRates == (ProviderRates \ {"undefined"}) \cup {FallbackRate}

\* C27: every value returned by getUsdToEurRate is a numeric rate, either
\* one delivered by the provider or the fallback 0.85, and the cache never
\* stores an entry whose rate is missing; in particular a 2xx provider
\* response whose rates carry no EUR value is neither cached nor returned.
\* Violated: data.rates.EUR is cached and returned as it is, undefined too.
C27_RateIsNumeric ==
    /\ cachedExchangeRate # <<>> => cachedExchangeRate[1].rate \in NumericRates
    /\ \A c \in Callers : cret[c].kind = "return" => cret[c].value \in NumericRates

\* what does hold: a call that ended in the catch block returned 0.85, any
\* other returned what the provider sent or what the cache held, and the
\* cache holds only what a provider sent
C27_RateFromProviderOrFallback ==
    /\ cachedExchangeRate # <<>> => cachedExchangeRate[1].rate \in ProviderRates
    /\ \A c \in Callers :
          cret[c].kind = "return" =>
              IF cret[c].via = "fallback" THEN cret[c].value = FallbackRate
              ELSE cret[c].value \in ProviderRates

(***************************************************************************)
(* analyzeStock (SpecSentiment).                                           *)
(***************************************************************************)

StockCall == call.fn = "analyzeStock" /\ call.pc = "done"

\* the news list with the labels positive and negative exchanged
SwapLabels(news) ==
    [i \in DOMAIN news |->
        CASE news[i] = "positive" -> "negative"
          [] news[i] = "negative" -> "positive"
          [] OTHER -> news[i]]

SwapRecommendation(recommendation) ==
    CASE recommendation = "BUY" -> "SELL"
      [] recommendation = "SELL" -> "BUY"
      [] OTHER -> recommendation

\* C28: analyzeStock returns BUY exactly when (positive items minus negative
\* items) >= 2 and the news list has at least 3 items, SELL exactly when
\* that difference is <= -2 and the list has at least 3 items, and HOLD in
\* every other case; exchanging the positive and negative labels of all
\* items exchanges BUY and SELL and keeps HOLD.
C28_RecommendationBySentiment ==
    StockCall =>
        LET news == call.symbol
            difference == CountSentiment(news, "positive") - CountSentiment(news, "negative")
            recommendation == ret.value[1]
        IN  /\ recommendation \in {"BUY", "SELL", "HOLD"}
            /\ recommendation = "BUY" <=> (difference >= 2 /\ Len(news) >= 3)
            /\ recommendation = "SELL" <=> (difference <= -2 /\ Len(news) >= 3)
            /\ analyzeStock(SwapLabels(news)) = SwapRecommendation(recommendation)

\* C28 witness: three positive items and a neutral one gave BUY
C28_Witness ==
    /\ StockCall
    /\ call.symbol = <<"positive", "positive", "neutral", "positive">>
    /\ ret.value = <<"BUY">>

(***************************************************************************)
(* searchStocks (SpecSearch).                                              *)
(***************************************************************************)

SearchDone == call.fn = "searchStocks" /\ call.pc = "done"

\* the symbols of the list returned
FoundSymbols ==
    IF call.variant = "finnhub"
    THEN {ret.value[i].symbol : i \in DOMAIN ret.value}
    ELSE {ret.value[i] : i \in DOMAIN ret.value}

CompanySymbols(k) ==
    {COMPANY_SEARCH_MAP[k].symbols[j] : j \in DOMAIN COMPANY_SEARCH_MAP[k].symbols}

\* C29: searchStocks never returns an empty list, and a query that equals,
\* case-insensitively, a company name of the built-in company map (for
\* example "Apple" or "Google") returns that company's ticker symbols.
\* Violated: a name of at most five letters is taken for a ticker symbol.
C29_NamesFound ==
    SearchDone =>
        /\ ret.value # <<>>
        /\ \A k \in DOMAIN COMPANY_SEARCH_MAP :
              toLowerCase(call.symbol) = COMPANY_SEARCH_MAP[k].company
                  => CompanySymbols(k) \subseteq FoundSymbols

\* what does hold: the list is never empty, a query of one to five letters
\* returns itself in upper case and nothing else, and a company name that is
\* no such query returns the symbols of the company
C29_NamesFoundUnlessSymbol ==
    SearchDone =>
        /\ ret.value # <<>>
        /\ IF IsSymbol(toUpperCase(call.symbol))
           THEN FoundSymbols = {toUpperCase(call.symbol)} /\ Len(ret.value) = 1
           ELSE \A k \in DOMAIN COMPANY_SEARCH_MAP :
                   toLowerCase(call.symbol) = COMPANY_SEARCH_MAP[k].company
                       => CompanySymbols(k) \subseteq FoundSymbols

\* the name Google, of six letters, is found in both variants
C29_GoogleFound ==
    (SearchDone /\ call.symbol = <<"G","o","o","g","l","e">>) =>
        /\ FoundSymbols = { <<"G","O","O","G","L">>, <<"G","O","O","G">> }
        /\ call.variant = "finnhub" => ret.value[1].match = "exact"

(***************************************************************************)
(* The debug log (SpecLog).  The id of an entry is the number of the call  *)
(* of addLog that made it.                                                 *)
(***************************************************************************)

NewestFirst(list) == \A i \in 1..(Len(list) - 1) : list[i].id > list[i + 1].id

Notified(newLogs) == \A panel \in Panels : IsListening(panel) => currentLogs'[panel] = newLogs

\* a step of addLog, and a step of clearLogs that changes anything
AddLogStep == logCount' = logCount + 1
ClearLogsStep == logCount' = logCount /\ logListeners' = logListeners /\ logVars' # logVars

\* C30: after any sequence of addLog and clearLogs calls the debug log holds
\* at most 100 entries ordered newest first: addLog puts the new entry at
\* the front and, when the log already holds 100 entries, drops the oldest
\* one; clearLogs leaves the log empty; each call notifies every registered
\* listener with the new log.
C30_LogCapped ==
    /\ [](Len(logs) <= LOG_CAP /\ NewestFirst(logs))
    /\ [][ /\ AddLogStep =>
                /\ logs' = <<LogEntry(logCount')>>
                             \o (IF Len(logs) = LOG_CAP THEN SubSeq(logs, 1, LOG_CAP - 1) ELSE logs)
                /\ Notified(logs')
           /\ ClearLogsStep => logs' = <<>> /\ Notified(<<>>) ]_vars

\* C30 witness: the log is full after more than 100 calls, the oldest
\* entries are gone, and a mounted panel shows the log
C30_Witness ==
    /\ logCount > LOG_CAP
    /\ Len(logs) = LOG_CAP
    /\ logs[1].id = logCount
    /\ logs[LOG_CAP].id = logCount - LOG_CAP + 1
    /\ logListeners # <<>>
    /\ \A panel \in Panels : IsListening(panel) => currentLogs[panel] = logs

====
